---- MODULE Spec2Model ----
(***************************************************************************)
(* Model of the NIP-46 remote signing facade of the Shakespeare plugin.    *)
(*                                                                         *)
(* Part 1 (specification Spec) is the BunkerSigner based ShakespeareSigner *)
(* of src/src/signer.ts, the storage module it persists to and the tools   *)
(* that call it.  A facade call is one action: callers await each call     *)
(* before they issue the next, and the outcome of every network wait       *)
(* (handshake acknowledgment, get_public_key, sign_event, close, relay     *)
(* acceptance) is an input of the action.                                  *)
(*                                                                         *)
(* Part 2 (specification SpecRequest) is sendRequest of the relay based    *)
(* ShakespeareSigner of src/unnamed/part_003: two calls in flight at once, *)
(* one step per promise continuation, timer and subscription callback.     *)
(*                                                                         *)
(* Part 3 (specification SpecLoad) runs the operations of signer.ts that   *)
(* load from the store over files this process did not write: text that is *)
(* not JSON, JSON null, and records with missing or undecodable fields.    *)
(***************************************************************************)
EXTENDS FiniteSets, Integers, Sequences, TLC

\* ------------------------------------------------------------------ bounds
\* number of client keys generateSecretKey() hands out in one behaviour
MaxKeys == 2
\* largest number of events handed to publishEvents()
MaxEvents == 2

\* ------------------------------------------------------------ value domain
\* a nullable field is the empty set (null) or a singleton
None == {}
Some(x) == {x}
Val(o) == CHOOSE x \in o : TRUE

\* what reading a property that a parsed record lacks gives (undefined), in
\* the shape of the value the property would have: bech32 text, a hex key, a
\* relay list, a nostrconnect URI
undefinedText == <<"undefined">>
undefinedHex == "undefined"
undefinedRelays == <<"undefined">>
undefinedUri == [scheme |-> "undefined", host |-> << >>, query |-> << >>]
\* a field that holds undefined: not null, and falsy
Undefined == Some(undefinedHex)
Falsy(o) == o = None \/ o = Undefined

\* public keys a remote signer can answer with (event author, get_public_key)
Pubkeys == {"pkA", "pkB"}
\* the private keys of those identities: only the remote signer holds them,
\* and generateSecretKey() does not hit them
IdentitySecretKey(pk) == IF pk = "pkA" THEN 101 ELSE 102
IdentitySecretKeys == {IdentitySecretKey(pk) : pk \in Pubkeys}
\* relay lists passed as customRelays
CustomRelays == {<< >>, <<"wss://relay.a", "wss://relay.b">>}
\* relay lists typed into the connect tool, already split on ',' and trimmed
ToolRelayArgs == {<< >>, <<"wss://relay.a", "http://relay.c">>}
\* the URLs of the model that start with 'wss://'
WssUrls == {"wss://relay.ditto.pub", "wss://relay.primal.net", "wss://relay.a", "wss://relay.b"}

DEFAULT_RELAYS == <<"wss://relay.ditto.pub", "wss://relay.primal.net">>

\* the sendRequest calls that can be in flight at once
Requests == {"call1", "call2"}
\* what generateRequestId() can return
RequestIds == {"id1", "id2"}
\* the relays handed to sendRequest
ConnectedRelays == {"wss://relay.ditto.pub", "wss://relay.primal.net"}
\* the fields of the relay based signer without and with a restored session
NoSession == [clientSecretKey |-> None, clientPubkey |-> None, bunkerPubkey |-> None]
RestoredSession ==
  [clientSecretKey |-> Some(1), clientPubkey |-> Some(<<"pub", 1>>),
   bunkerPubkey |-> Some("pkA")]
\* a promise that has not settled
Unsettled ==
  [kind |-> "pending", value |-> "", by |-> None, accepted |-> {}, missed |-> FALSE]

VARIABLES
  bunkerSigner,       \* this.bunkerSigner: None or Some(handle)
  clientSecretKey,    \* this.clientSecretKey: None or Some(secret key)
  userPubkey,         \* this.userPubkey: None or Some(hex pubkey)
  relays,             \* this.relays
  pendingConnection,  \* this.pendingConnection: None or Some(record)
  authFile,           \* ~/.config/shakespeare/auth.json: None or Some(text)
  pendingFile,        \* the pending connection file: None or Some(text)
  nextKey,            \* source of randomness: the next secret key to hand out
  restored,           \* history: the credentials in memory are those the
                      \* constructor restored, no handshake or disconnect since
  lastCall,           \* the facade call that just returned, with its outcome
  \* --- the relay based signer and its sendRequest calls
  relaySigner,        \* its fields clientSecretKey, clientPubkey, bunkerPubkey
  requestId,          \* per call: the generated request id
  pc,                 \* per call: "idle", "publishing", "waiting" or "settled"
  timeout,            \* per call: the setTimeout timer is armed
  subs,               \* per call: the relays whose subscription is open
  outcome,            \* per call: how the promise settled, and on which event;
                      \* history: the relays that accepted the request envelope,
                      \* and whether its response was emitted unheard
  seen,               \* history, per call: the kinds of event delivered to it
  \* --- the text of a nostrconnect URI, built and read back
  uriParams,          \* the arguments of the builder, and which builder
  uriText,            \* the URI it returned, << >> before the call
  uriParsed,          \* None, or Some(what a signer app reads from the text)
  \* --- the connect() of the relay based signer
  attempt,            \* its promise, timer, subscriptions and closure values
  \* --- the relay connections of the relay based signer
  connectedRelays,    \* this.connectedRelays: relay URL -> the cached connection
  sockets,            \* the connections Relay.connect() opened, not yet closed
  connecting,         \* per operation: its position in connectToRelays()
  \* --- console.debug around the signEvent of the BunkerSigner based signer
  consoleDebug,       \* the function console.debug currently is
  restoreDebug,       \* per call: the function its restore closure puts back
  signing             \* per call: "idle", "awaiting" or "settled"

signerVars == <<bunkerSigner, clientSecretKey, userPubkey, relays, pendingConnection,
                authFile, pendingFile, nextKey, restored, lastCall>>
requestVars == <<relaySigner, requestId, pc, timeout, subs, outcome, seen>>
uriVars == <<uriParams, uriText, uriParsed>>
poolVars == <<connectedRelays, sockets, connecting>>
consoleVars == <<consoleDebug, restoreDebug, signing>>
vars == <<signerVars, requestVars, uriVars, attempt, poolVars, consoleVars>>

\* what a step of the facade of signer.ts leaves alone
SignerFrame == UNCHANGED <<requestVars, uriVars, attempt, poolVars, consoleVars>>
\* what a step of a sendRequest call leaves alone
RequestFrame == UNCHANGED <<signerVars, uriVars, attempt, poolVars, consoleVars>>
\* what building and parsing a URI text leaves alone
UriFrame == UNCHANGED <<signerVars, requestVars, attempt, poolVars, consoleVars>>
\* no URI text is being built
NoUriParams == [via |-> "none", clientPubkey |-> << >>, relays |-> << >>, secret |-> << >>]
NoUri ==
  /\ uriParams = NoUriParams
  /\ uriText = << >>
  /\ uriParsed = None
\* connect() of the relay based signer has not been called
NoAttempt ==
  [pc |-> "idle", timer |-> FALSE, subs |-> {}, secret |-> << >>,
   relays |-> << >>, userPubkey |-> None,
   \* history: the result of the response the handler took as acknowledgment
   by |-> None,
   \* history: the relays of this.relays that Relay.connect() reached
   reached |-> {},
   \* the message connect() rejected with
   error |-> ""]
\* the operations of the relay based signer that call connectToRelays()
Operations == {"op1", "op2"}
\* connectToRelays() is not running
NotConnecting == [pc |-> "idle", url |-> "", rest |-> << >>, connected |-> << >>]
\* no relay connection was opened yet
NoPool ==
  /\ connectedRelays = << >>
  /\ sockets = {}
  /\ connecting = [p \in Operations |-> NotConnecting]
\* the overlapping signEvent calls of the BunkerSigner based signer
SignCalls == {"sign1", "sign2", "sign3"}
\* the function console.debug is when the module is loaded
originalDebug == <<"debug", "console">>
\* console.debug was never replaced
NoConsole ==
  /\ consoleDebug = originalDebug
  /\ restoreDebug = [c \in SignCalls |-> None]
  /\ signing = [c \in SignCalls |-> "idle"]

\* --------------------------------------------------------- library helpers
\* mutant: the client key in memory is used again
generateSecretKeyReused == IF clientSecretKey # None THEN Val(clientSecretKey) ELSE nextKey
\* generateSecretKey(): a key never handed out before
generateSecretKey == nextKey
\* generateSecret(): 16 fresh random bytes, hex encoded
generateSecret == <<"secret", nextKey>>
\* Date.now(): a logical clock that advances with every connection attempt
Now == nextKey
\* getPublicKey(sk): the public key of a secret key
getPublicKey(sk) == <<"pub", sk>>
\* nip19.nsecEncode(sk): bech32 text with the nsec prefix
nsecEncode(sk) == <<"nsec1", sk>>
\* nip19.npubEncode(hex)
npubEncode(hex) == <<"npub1", hex>>
\* mutant: a decode that returns another key than the one encoded
decodeOtherKey(text) ==
  IF Len(text) = 2 /\ text[1] = "nsec1" THEN [threw |-> FALSE, type |-> "nsec", data |-> 0]
  ELSE IF Len(text) = 2 /\ text[1] = "npub1" THEN [threw |-> FALSE, type |-> "npub", data |-> text[2]]
  ELSE [threw |-> TRUE, type |-> "", data |-> 0]

\* nip19.decode(text): {type, data}, or a throw for text that is not bech32
decode(text) ==
  IF Len(text) = 2 /\ text[1] = "nsec1" THEN [threw |-> FALSE, type |-> "nsec", data |-> text[2]]
  ELSE IF Len(text) = 2 /\ text[1] = "npub1" THEN [threw |-> FALSE, type |-> "npub", data |-> text[2]]
  ELSE [threw |-> TRUE, type |-> "", data |-> 0]

\* createNostrConnectURI: the query is built relay by relay, then secret,
\* name and perms
RECURSIVE RelayParams(_)
RelayParams(rs) ==
  IF rs = << >> THEN << >> ELSE <<<<"relay", Head(rs)>>>> \o RelayParams(Tail(rs))

RECURSIVE JoinPerms(_)
JoinPerms(ps) ==
  IF ps = << >> THEN << >>
  ELSE IF Len(ps) = 1 THEN <<Head(ps)>>
  ELSE <<Head(ps), ",">> \o JoinPerms(Tail(ps))

createNostrConnectURI(clientPubkey, rs, secret, name, perms) ==
  [scheme |-> "nostrconnect",
   host   |-> clientPubkey,
   query  |-> RelayParams(rs) \o <<<<"secret", secret>>>>
              \o (IF name # "" THEN <<<<"name", name>>>> ELSE << >>)
              \o (IF Len(perms) > 0 THEN <<<<"perms", JoinPerms(perms)>>>> ELSE << >>)]

\* the relay parameters a signer library reads back from the URI
RECURSIVE UriRelays(_)
UriRelays(q) ==
  IF q = << >> THEN << >>
  ELSE (IF Head(q)[1] = "relay" THEN <<Head(q)[2]>> ELSE << >>) \o UriRelays(Tail(q))

\* --- the URI as text. A text is a sequence of characters; the words
\* "nostrconnect://", "relay", "secret", "name", "perms", "Shakespeare" and
\* "sign_event" stand for their (unreserved) characters.
\* the characters relay URLs and secrets are drawn from: one that every
\* encoder copies, and those the query syntax gives a meaning to
UriChars == {"a", "&", "=", "+", " ", "%"}
\* the characters application/x-www-form-urlencoded and encodeURIComponent
\* do not copy
Reserved == {"&", "=", "+", " ", "%", ","}
HexDigits == {"0", "2", "3", "5", "6", "a", "B", "C", "D"}
\* the two hex digits of a character's byte
HexCode(c) ==
  CASE c = "&" -> <<"2", "6">>
    [] c = "=" -> <<"3", "D">>
    [] c = "+" -> <<"2", "B">>
    [] c = " " -> <<"2", "0">>
    [] c = "%" -> <<"2", "5">>
    [] c = "," -> <<"2", "C">>
\* the character of a byte, "byte" for one outside the alphabet
CharOf(h1, h2) ==
  IF \E c \in Reserved : HexCode(c) = <<h1, h2>>
  THEN CHOOSE c \in Reserved : HexCode(c) = <<h1, h2>>
  ELSE "byte"

\* mutant: the serializer copies every character
formEncodeRaw(c) == <<c>>

\* URLSearchParams serializer, one character: a space becomes "+", the other
\* reserved characters are percent-encoded
formEncode(c) ==
  IF c = " " THEN <<"+">>
  ELSE IF c \in Reserved THEN <<"%">> \o HexCode(c)
  ELSE <<c>>

RECURSIVE formEncodeText(_)
formEncodeText(t) ==
  IF t = << >> THEN << >> ELSE formEncode(Head(t)) \o formEncodeText(Tail(t))

\* encodeURIComponent: every reserved character is percent-encoded
RECURSIVE encodeURIComponent(_)
encodeURIComponent(t) ==
  IF t = << >> THEN << >>
  ELSE (IF Head(t) \in Reserved THEN <<"%">> \o HexCode(Head(t)) ELSE <<Head(t)>>)
       \o encodeURIComponent(Tail(t))

\* searchParams.toString(): name=value pairs joined by "&"
RECURSIVE toString(_)
toString(q) ==
  IF q = << >> THEN << >>
  ELSE <<Head(q)[1], "=">>
       \o (IF Head(q)[1] = "name" THEN <<Head(q)[2]>> ELSE formEncodeText(Head(q)[2]))
       \o (IF Len(q) > 1 THEN <<"&">> ELSE << >>)
       \o toString(Tail(q))

\* the template string createNostrConnectURI returns
UriText(uri) == <<"nostrconnect://">> \o uri.host \o <<"?">> \o toString(uri.query)

\* the variant that builds the URI by hand: relays through
\* encodeURIComponent, the secret as it is
RECURSIVE relayParams(_)
relayParams(rs) ==
  IF rs = << >> THEN << >>
  ELSE <<"relay", "=">> \o encodeURIComponent(Head(rs))
       \o (IF Len(rs) > 1 THEN <<"&">> ELSE << >>)
       \o relayParams(Tail(rs))

manualUri(clientPubkey, rs, secret) ==
  <<"nostrconnect://">> \o clientPubkey \o <<"?">> \o relayParams(rs)
  \o <<"&", "secret", "=">> \o secret
  \o <<"&", "name", "=", "Shakespeare", "&", "perms", "=", "sign_event">>

\* --- reading the text back, as new URL(text) and its searchParams do
\* the part of t before, and after, the first occurrence of sep
RECURSIVE Before(_, _)
Before(t, sep) ==
  IF t = << >> \/ Head(t) = sep THEN << >>
  ELSE <<Head(t)>> \o Before(Tail(t), sep)

RECURSIVE After(_, _)
After(t, sep) ==
  IF t = << >> THEN << >>
  ELSE IF Head(t) = sep THEN Tail(t)
  ELSE After(Tail(t), sep)

\* the query cut at every "&"
RECURSIVE SplitOn(_, _)
SplitOn(t, sep) ==
  IF t = << >> THEN << >>
  ELSE <<Before(t, sep)>> \o SplitOn(After(t, sep), sep)

\* form decoding: "+" is a space, "%" and two hex digits are a byte
RECURSIVE formDecode(_)
formDecode(t) ==
  IF t = << >> THEN << >>
  ELSE IF Head(t) = "+" THEN <<" ">> \o formDecode(Tail(t))
  ELSE IF Head(t) = "%" /\ Len(t) >= 3 /\ t[2] \in HexDigits /\ t[3] \in HexDigits
       THEN <<CharOf(t[2], t[3])>> \o formDecode(SubSeq(t, 4, Len(t)))
  ELSE <<Head(t)>> \o formDecode(Tail(t))

\* the name/value pairs of the query; an empty piece is skipped
RECURSIVE parsePairs(_)
parsePairs(pieces) ==
  IF pieces = << >> THEN << >>
  ELSE (IF Head(pieces) = << >> THEN << >>
        ELSE <<<<formDecode(Before(Head(pieces), "=")),
                 formDecode(After(Head(pieces), "="))>>>>)
       \o parsePairs(Tail(pieces))

\* searchParams.getAll(name)
RECURSIVE getAll(_, _)
getAll(pairs, name) ==
  IF pairs = << >> THEN << >>
  ELSE (IF Head(pairs)[1] = <<name>> THEN <<Head(pairs)[2]>> ELSE << >>)
       \o getAll(Tail(pairs), name)

\* what a signer app reads from the text: the host, every relay parameter
\* in order, the first secret parameter
parseNostrConnectURI(text) ==
  IF text = << >> \/ Head(text) # "nostrconnect://"
  THEN [threw |-> TRUE, clientPubkey |-> << >>, relays |-> << >>, secret |-> None]
  ELSE LET pairs == parsePairs(SplitOn(After(Tail(text), "?"), "&"))
           secrets == getAll(pairs, "secret")
       IN [threw        |-> FALSE,
           clientPubkey |-> Before(Tail(text), "?"),
           relays       |-> getAll(pairs, "relay"),
           secret       |-> IF secrets = << >> THEN None ELSE Some(Head(secrets))]

\* BunkerSigner.fromURI resolved: a live handle bound to the client key, the
\* author of the acknowledgment and the relays of the URI
fromURI(sk, uri, author) ==
  [sk |-> sk, bp |-> [pubkey |-> author, relays |-> UriRelays(uri.query)]]

\* BunkerSigner.fromBunker / constructor: a handle from a bunker pointer
fromBunker(sk, pointer) == [sk |-> sk, bp |-> pointer]

\* ---------------------------------------------------------------- storage
\* JSON.stringify / JSON.parse of a record
stringify(doc) == [kind |-> "json", doc |-> doc]
parse(text) ==
  IF text.kind = "json" THEN [threw |-> FALSE, doc |-> text.doc]
  ELSE [threw |-> TRUE, doc |-> [x |-> 0]]

\* JSON null, and the test for it
null == [null |-> TRUE]
IsNull(doc) == "null" \in DOMAIN doc

\* loadAuthState(): null when the file is missing or does not parse, and
\* otherwise whatever JSON.parse returns (null for the text 'null')
loadAuthState ==
  IF authFile = None THEN None
  ELSE IF parse(Val(authFile)).threw THEN None
  ELSE IF IsNull(parse(Val(authFile)).doc) THEN None
  ELSE Some(parse(Val(authFile)).doc)

\* saveAuthState(state): the new content of the file
saveAuthState(state) == Some(stringify(state))

\* clearAuthState(): the file is unlinked
clearAuthState == None

\* loadPendingConnection()
loadPendingConnection ==
  IF pendingFile = None THEN None
  ELSE IF parse(Val(pendingFile)).threw THEN None
  ELSE IF IsNull(parse(Val(pendingFile)).doc) THEN None
  ELSE Some(parse(Val(pendingFile)).doc)

\* mutant: a stored pending connection is not overwritten
savePendingConnectionKeepOld(pending) ==
  IF pendingFile # None THEN pendingFile ELSE Some(stringify(pending))

\* savePendingConnection(pending)
savePendingConnection(pending) == Some(stringify(pending))

\* clearPendingConnection()
clearPendingConnection == None

\* (a load that makes up a pending connection when none is stored)
loadPendingConnectionFromDiskMadeUp ==
  [pending |-> Some([clientSecretKey |-> 0,
                     nostrconnectUri |-> createNostrConnectURI(getPublicKey(0),
                                           DEFAULT_RELAYS, <<"secret", 0>>,
                                           "Shakespeare", <<"sign_event">>),
                     relays |-> DEFAULT_RELAYS]),
   file |-> pendingFile]

\* loadPendingConnectionFromDisk(): the in-memory form of the stored pending
\* connection, and the file afterwards (cleared when the key does not decode)
loadPendingConnectionFromDisk ==
  LET state == loadPendingConnection IN
  IF state = None THEN [pending |-> None, file |-> pendingFile]
  ELSE LET decoded == decode(Val(state).clientSecretKey) IN
       IF decoded.threw THEN [pending |-> None, file |-> clearPendingConnection]
       ELSE IF decoded.type = "nsec"
       THEN [pending |-> Some([clientSecretKey |-> decoded.data,
                               nostrconnectUri |-> Val(state).nostrconnectUri,
                               relays |-> Val(state).relays]),
             file |-> pendingFile]
       ELSE [pending |-> None, file |-> pendingFile]

\* ------------------------------------------------------------ signer reads
\* (a facade that always reports connected)
isConnectedAlways == TRUE

\* isConnected()
isConnected == userPubkey # None /\ clientSecretKey # None

\* getUserNpub()
getUserNpub == IF Falsy(userPubkey) THEN None ELSE Some(npubEncode(Val(userPubkey)))

\* hasPendingConnection()
hasPendingConnection ==
  IF pendingConnection # None THEN TRUE ELSE loadPendingConnection # None

\* mutant: a missing Session is reported as not connected
ensureBunkerSignerOneMessage ==
  IF bunkerSigner # None THEN [ok |-> TRUE, handle |-> bunkerSigner, msg |-> ""]
  ELSE IF clientSecretKey = None \/ Falsy(userPubkey) \/ loadAuthState = None
  THEN [ok |-> FALSE, handle |-> None, msg |-> "Not connected. Use shakespeare_connect first."]
  ELSE [ok |-> TRUE,
        handle |-> Some(fromBunker(Val(clientSecretKey),
                                   [pubkey |-> Val(loadAuthState).bunkerPubkey,
                                    relays |-> Val(loadAuthState).relays])),
        msg |-> ""]
\* ensureBunkerSigner(): the handle signEvent uses, or the error it throws
ensureBunkerSigner ==
  IF bunkerSigner # None THEN [ok |-> TRUE, handle |-> bunkerSigner, msg |-> ""]
  ELSE IF clientSecretKey = None \/ Falsy(userPubkey)
  THEN [ok |-> FALSE, handle |-> None, msg |-> "Not connected. Use shakespeare_connect first."]
  ELSE IF loadAuthState = None
  THEN [ok |-> FALSE, handle |-> None, msg |-> "No auth state found. Use shakespeare_connect first."]
  ELSE [ok |-> TRUE,
        handle |-> Some(fromBunker(Val(clientSecretKey),
                                   [pubkey |-> Val(loadAuthState).bunkerPubkey,
                                    relays |-> Val(loadAuthState).relays])),
        msg |-> ""]

\* mutant: the user public key is not restored
restoreCredentialsNoUser ==
  LET state == loadAuthState
      fresh == [clientSecretKey |-> None, userPubkey |-> None,
                relays |-> DEFAULT_RELAYS, bunkerSigner |-> None]
  IN IF state = None THEN fresh
     ELSE LET decoded == decode(Val(state).clientSecretKey) IN
          IF decoded.threw \/ decoded.type # "nsec" THEN fresh
          ELSE [clientSecretKey |-> Some(decoded.data),
                userPubkey |-> None,
                relays |-> Val(state).relays,
                bunkerSigner |-> Some(fromBunker(decoded.data,
                                        [pubkey |-> Val(state).bunkerPubkey,
                                         relays |-> Val(state).relays]))]

\* restoreCredentials(): the fields the constructor ends with
restoreCredentials ==
  LET state == loadAuthState
      fresh == [clientSecretKey |-> None, userPubkey |-> None,
                relays |-> DEFAULT_RELAYS, bunkerSigner |-> None]
  IN IF state = None THEN fresh
     ELSE LET decoded == decode(Val(state).clientSecretKey) IN
          IF decoded.threw THEN fresh
          ELSE IF decoded.type = "nsec"
          THEN [clientSecretKey |-> Some(decoded.data),
                userPubkey |-> Some(Val(state).userPubkey),
                relays |-> Val(state).relays,
                bunkerSigner |-> Some(fromBunker(decoded.data,
                                        [pubkey |-> Val(state).bunkerPubkey,
                                         relays |-> Val(state).relays]))]
          ELSE fresh

\* restoreCredentials() when creating the BunkerSigner throws: the fields
\* assigned before the throw stay, the catch block assigns them once more,
\* and no handle is kept
restoreCredentialsCaught ==
  [restoreCredentials EXCEPT !.bunkerSigner = None]

\* the record of a returned call
Call(op, via, ok, msg) ==
  [op |-> op, via |-> via, ok |-> ok, msg |-> msg,
   \* the call ended by throwing: a signer method reports every failure by
   \* throwing; execute() of the connect, complete and sign tools catches
   \* what the signer throws and returns a string instead
   threw |-> (~ok /\ via = "signer"),
   wasConnected |-> isConnected,   \* isConnected() when the call was made
   ack |-> None, pk |-> None,      \* what the remote signer answered
   req |-> None,                   \* the handle a sign_event request went through
   http |-> FALSE,                 \* an outbound HTTP request was sent
   fromDisk |-> FALSE,             \* the pending connection was read from the store
   after |-> <<"", "">>,           \* for a sign call: the call that returned before it
   identity |-> None,              \* the npub an 'Already connected' reply names
   success |-> 0, total |-> 0, results |-> << >>]

\* the record of a returned sign call
SignCall(via, ok, msg, req) ==
  [Call("signEvent", via, ok, msg)
   EXCEPT !.req = req, !.after = <<lastCall.op, lastCall.msg>>]

\* the record of a returned call that waited for a handshake
HandshakeCall(op, via, ok, msg, ack, pk) ==
  [Call(op, via, ok, msg) EXCEPT !.ack = ack, !.pk = IF ack = None THEN None ELSE pk]

Init ==
  /\ bunkerSigner = None
  /\ clientSecretKey = None
  /\ userPubkey = None
  /\ relays = DEFAULT_RELAYS
  /\ pendingConnection = None
  /\ authFile = None
  /\ pendingFile = None
  /\ nextKey = 1
  /\ restored = FALSE
  /\ lastCall = Call("constructor", "signer", TRUE, "")
  /\ relaySigner = NoSession
  /\ requestId = [r \in Requests |-> ""]
  /\ pc = [r \in Requests |-> "idle"]
  /\ timeout = [r \in Requests |-> FALSE]
  /\ subs = [r \in Requests |-> {}]
  /\ outcome = [r \in Requests |-> Unsettled]
  /\ seen = [r \in Requests |-> {}]
  /\ NoUri
  /\ attempt = NoAttempt
  /\ NoPool
  /\ NoConsole

\* ------------------------------------------------------- signer operations
\* mutant: the Session keeps the private key of the user's identity
connectStateIdentityKey(sk, clientPubkey, pk, rs) ==
  [clientSecretKey |-> nsecEncode(IdentitySecretKey(pk)),
   clientPubkey    |-> clientPubkey,
   bunkerPubkey    |-> pk,
   userPubkey      |-> pk,
   relays          |-> rs,
   connectedAt     |-> Now,
   permissions     |-> <<"sign_event">>]

\* the AuthState connect() saves: this.userPubkey doubles as bunkerPubkey
connectState(sk, clientPubkey, pk, rs) ==
  [clientSecretKey |-> nsecEncode(sk),
   clientPubkey    |-> clientPubkey,
   bunkerPubkey    |-> pk,
   userPubkey      |-> pk,
   relays          |-> rs,
   connectedAt     |-> Now,
   permissions     |-> <<"sign_event">>]

\* mutant: the relays of the signer at call time instead of those recorded
\* in the pending connection
completeConnectionStateStaleRelays(sk, pk, rs) ==
  [clientSecretKey |-> nsecEncode(sk),
   clientPubkey    |-> getPublicKey(sk),
   bunkerPubkey    |-> pk,
   userPubkey      |-> pk,
   relays          |-> relays,
   connectedAt     |-> Now,
   permissions     |-> <<"sign_event">>]

\* the AuthState completeConnection() saves
completeConnectionState(sk, pk, rs) ==
  [clientSecretKey |-> nsecEncode(sk),
   clientPubkey    |-> getPublicKey(sk),
   bunkerPubkey    |-> pk,
   userPubkey      |-> pk,
   relays          |-> rs,
   connectedAt     |-> Now,
   permissions     |-> <<"sign_event">>]

\* ShakespeareSigner.connect(customRelays): the one-step flow.  ack is the
\* author of the acknowledgment fromURI resolved with (None: it rejected),
\* pk the answer to getPublicKey() (None: it rejected).
connect(customRelays, ack, pk, via) ==
  LET rs == IF Len(customRelays) > 0 THEN customRelays ELSE relays
      sk == generateSecretKey
      clientPubkey == getPublicKey(sk)
      secret == generateSecret
      nostrconnectUri == createNostrConnectURI(clientPubkey, rs, secret,
                                               "Shakespeare", <<"sign_event">>)
  IN /\ SignerFrame
     /\ nextKey <= MaxKeys
     /\ nextKey' = nextKey + 1
     /\ restored' = FALSE
     /\ relays' = rs
     /\ UNCHANGED <<pendingConnection, pendingFile>>
     /\ IF ack = None \/ pk = None
        THEN \* catch: clean up on failure
             /\ clientSecretKey' = None
             /\ bunkerSigner' = None
             /\ UNCHANGED <<userPubkey, authFile>>
             /\ lastCall' = HandshakeCall("connect", via, FALSE,
                                          IF ack = None THEN "handshake timed out"
                                                        ELSE "get_public_key failed",
                                          ack, pk)
        ELSE /\ clientSecretKey' = Some(sk)
             /\ bunkerSigner' = Some(fromURI(sk, nostrconnectUri, Val(ack)))
             /\ userPubkey' = pk
             /\ authFile' = saveAuthState(connectState(sk, clientPubkey, Val(pk), rs))
             /\ lastCall' = HandshakeCall("connect", via, TRUE,
                                          "Connected successfully!", ack, pk)

\* ShakespeareSigner.initiateConnection(customRelays): step 1 of the two-step
\* flow
initiateConnection(customRelays) ==
  LET rs == IF Len(customRelays) > 0 THEN customRelays ELSE relays
      sk == generateSecretKey
      clientPubkey == getPublicKey(sk)
      secret == generateSecret
      nostrconnectUri == createNostrConnectURI(clientPubkey, rs, secret,
                                               "Shakespeare", <<"sign_event">>)
  IN /\ SignerFrame
     /\ nextKey <= MaxKeys
     /\ nextKey' = nextKey + 1
     /\ restored' = FALSE
     /\ relays' = rs
     /\ pendingConnection' = Some([clientSecretKey |-> sk,
                                   nostrconnectUri |-> nostrconnectUri,
                                   relays |-> rs])
     /\ pendingFile' = savePendingConnection(
          [clientSecretKey |-> nsecEncode(sk),
           nostrconnectUri |-> nostrconnectUri,
           relays          |-> rs,
           createdAt       |-> Now])
     /\ UNCHANGED <<bunkerSigner, clientSecretKey, userPubkey, authFile>>
     /\ lastCall' = Call("initiateConnection", "signer", TRUE, "invitation")

\* ShakespeareSigner.completeConnection(timeoutMs): step 2 of the two-step
\* flow; ack and pk as for connect
completeConnection(ack, pk, via) ==
  LET disk == loadPendingConnectionFromDisk
      pending == IF pendingConnection # None THEN pendingConnection ELSE disk.pending
      fileRead == IF pendingConnection # None THEN pendingFile ELSE disk.file
      usedDisk == pendingConnection = None
  IN /\ SignerFrame
     /\ UNCHANGED nextKey
     /\ restored' = FALSE
     /\ IF pending = None
        THEN /\ pendingFile' = fileRead
             /\ UNCHANGED <<bunkerSigner, clientSecretKey, userPubkey, relays,
                            pendingConnection, authFile>>
             /\ lastCall' = Call("completeConnection", via, FALSE,
                                 "No pending connection. Run shakespeare_connect first.")
        ELSE LET sk == Val(pending).clientSecretKey
                 uri == Val(pending).nostrconnectUri
                 rs == Val(pending).relays
             IN /\ pendingConnection' = None
                /\ pendingFile' = clearPendingConnection
                /\ IF uri.scheme # "nostrconnect"
                   THEN \* fromURI throws on a URI it cannot parse
                        /\ UNCHANGED <<bunkerSigner, clientSecretKey, userPubkey,
                                       relays, authFile>>
                        /\ lastCall' = [Call("completeConnection", via, FALSE,
                                             "invalid nostrconnect URI")
                                        EXCEPT !.fromDisk = usedDisk]
                   ELSE IF ack = None
                   THEN /\ UNCHANGED <<bunkerSigner, clientSecretKey, userPubkey,
                                       relays, authFile>>
                        /\ lastCall' = [HandshakeCall("completeConnection", via, FALSE,
                                                      "handshake timed out", ack, pk)
                                        EXCEPT !.fromDisk = usedDisk]
                   ELSE /\ bunkerSigner' = Some(fromURI(sk, uri, Val(ack)))
                        /\ IF pk = None
                           THEN /\ UNCHANGED <<clientSecretKey, userPubkey, relays,
                                               authFile>>
                                /\ lastCall' = [HandshakeCall("completeConnection", via,
                                                    FALSE, "get_public_key failed", ack, pk)
                                                EXCEPT !.fromDisk = usedDisk]
                           ELSE /\ userPubkey' = pk
                                /\ clientSecretKey' = Some(sk)
                                /\ relays' = rs
                                /\ authFile' = saveAuthState(
                                     completeConnectionState(sk, Val(pk), rs))
                                /\ lastCall' = [HandshakeCall("completeConnection", via,
                                                    TRUE, "Connected successfully!", ack, pk)
                                                EXCEPT !.fromDisk = usedDisk]

\* mutant: the live handle survives the disconnect
disconnectKeepsHandle(closeOk, via) ==
  /\ SignerFrame
  /\ UNCHANGED <<relays, pendingConnection, pendingFile, nextKey, bunkerSigner>>
  /\ IF bunkerSigner # None /\ ~closeOk
     THEN /\ UNCHANGED <<clientSecretKey, userPubkey, authFile, restored>>
          /\ lastCall' = Call("disconnect", via, FALSE, "close failed")
     ELSE /\ clientSecretKey' = None
          /\ userPubkey' = None
          /\ authFile' = clearAuthState
          /\ restored' = FALSE
          /\ lastCall' = Call("disconnect", via, TRUE, "disconnected")

\* ShakespeareSigner.disconnect(); closeOk is the outcome of
\* bunkerSigner.close(), whose rejection is not caught
disconnect(closeOk, via) ==
  /\ SignerFrame
  /\ UNCHANGED <<relays, pendingConnection, pendingFile, nextKey>>
  /\ IF bunkerSigner # None /\ ~closeOk
     THEN /\ UNCHANGED <<bunkerSigner, clientSecretKey, userPubkey, authFile, restored>>
          \* disconnect.execute awaits disconnect() outside any try
          /\ lastCall' = [Call("disconnect", via, FALSE, "close failed")
                          EXCEPT !.threw = TRUE]
     ELSE /\ bunkerSigner' = None
          /\ clientSecretKey' = None
          /\ userPubkey' = None
          /\ authFile' = clearAuthState
          /\ restored' = FALSE
          /\ lastCall' = Call("disconnect", via, TRUE, "disconnected")

\* ShakespeareSigner.signEvent(eventTemplate); signed is the outcome of the
\* sign_event request of the handle
signEvent(signed, via) ==
  LET e == ensureBunkerSigner IN
  /\ SignerFrame
  /\ UNCHANGED <<clientSecretKey, userPubkey, relays, pendingConnection,
                 authFile, pendingFile, nextKey, restored>>
  /\ IF ~e.ok
     THEN /\ UNCHANGED bunkerSigner
          /\ lastCall' = SignCall(via, FALSE, e.msg, None)
     ELSE /\ bunkerSigner' = e.handle
          /\ lastCall' = SignCall(via, signed,
                                   IF signed THEN "signed" ELSE "sign_event failed",
                                   e.handle)

\* new ShakespeareSigner() in a new process over the same storage
constructor ==
  /\ SignerFrame
  /\ LET r == restoreCredentials IN
     /\ bunkerSigner' = r.bunkerSigner
     /\ clientSecretKey' = r.clientSecretKey
     /\ userPubkey' = r.userPubkey
     /\ relays' = r.relays
     /\ pendingConnection' = None
     /\ restored' = (r.clientSecretKey # None)
     /\ UNCHANGED <<authFile, pendingFile, nextKey>>
     /\ lastCall' = Call("constructor", "signer", TRUE, "")

\* the settled state of one promise of pool.publish(relays, event)
Status == {"fulfilled", "rejected"}

\* the loop over the settled results that counts the fulfilled ones, from
\* index i on
RECURSIVE CountFulfilled(_, _)
CountFulfilled(results, i) ==
  IF i > Len(results) THEN 0
  ELSE (IF results[i] = "fulfilled" THEN 1 ELSE 0) + CountFulfilled(results, i + 1)

\* the outer loop of publishEvents over the events, from event e on
RECURSIVE CountAll(_, _)
CountAll(all, e) ==
  IF e > Len(all) THEN 0
  ELSE CountFulfilled(all[e], 1) + CountAll(all, e + 1)

\* the value publishEvent(event) returns; results[i] is how relay i settled
publishEventResult(results) ==
  [success |-> CountFulfilled(results, 1), total |-> Len(relays)]

\* mutant: the total is not multiplied by the number of events
publishEventsResultPerEvent(all) ==
  [success |-> CountAll(all, 1), total |-> Len(relays)]

\* the value publishEvents(events) returns; all[e][i] is how relay i settled
\* for event e
publishEventsResult(all) ==
  [success |-> CountAll(all, 1), total |-> Len(all) * Len(relays)]

\* ShakespeareSigner.publishEvent(event)
publishEvent(results) ==
  /\ SignerFrame
  /\ UNCHANGED <<bunkerSigner, clientSecretKey, userPubkey, relays,
                 pendingConnection, authFile, pendingFile, nextKey, restored>>
  /\ lastCall' = [Call("publishEvent", "signer", TRUE, "")
                  EXCEPT !.success = publishEventResult(results).success,
                         !.total = publishEventResult(results).total,
                         !.results = <<results>>]

\* ShakespeareSigner.publishEvents(events)
publishEvents(all) ==
  /\ SignerFrame
  /\ UNCHANGED <<bunkerSigner, clientSecretKey, userPubkey, relays,
                 pendingConnection, authFile, pendingFile, nextKey, restored>>
  /\ lastCall' = [Call("publishEvents", "signer", TRUE, "")
                  EXCEPT !.success = publishEventsResult(all).success,
                         !.total = publishEventsResult(all).total,
                         !.results = all]

\* ------------------------------------------------------------------ tools
\* the relays argument of the connect tool after filter(startsWith('wss://'))
RECURSIVE FilterWss(_)
FilterWss(rs) ==
  IF rs = << >> THEN << >>
  ELSE (IF Head(rs) \in WssUrls THEN <<Head(rs)>> ELSE << >>) \o FilterWss(Tail(rs))

\* connect.execute(args)
ConnectExecute(args, ack, pk) ==
  /\ SignerFrame
  /\ IF isConnected
     THEN /\ UNCHANGED <<bunkerSigner, clientSecretKey, userPubkey, relays,
                         pendingConnection, authFile, pendingFile, nextKey, restored>>
          /\ lastCall' = [Call("connect", "tool", TRUE, "Already connected")
                          EXCEPT !.identity = getUserNpub]
     ELSE connect(FilterWss(args), ack, pk, "tool")

\* complete.execute(args)
CompleteExecute(ack, pk) ==
  /\ SignerFrame
  /\ IF isConnected
     THEN /\ UNCHANGED <<bunkerSigner, clientSecretKey, userPubkey, relays,
                         pendingConnection, authFile, pendingFile, nextKey, restored>>
          /\ lastCall' = [Call("completeConnection", "tool", TRUE, "Already connected")
                          EXCEPT !.identity = getUserNpub]
     ELSE IF ~hasPendingConnection
     THEN /\ UNCHANGED <<bunkerSigner, clientSecretKey, userPubkey, relays,
                         pendingConnection, authFile, pendingFile, nextKey, restored>>
          /\ lastCall' = Call("completeConnection", "tool", FALSE,
                              "No pending connection. Run shakespeare_connect first to generate a QR code.")
     ELSE completeConnection(ack, pk, "tool")

\* disconnect.execute()
DisconnectExecute(closeOk) ==
  /\ SignerFrame
  /\ IF ~isConnected
     THEN /\ UNCHANGED <<bunkerSigner, clientSecretKey, userPubkey, relays,
                         pendingConnection, authFile, pendingFile, nextKey, restored>>
          /\ lastCall' = Call("disconnect", "tool", TRUE,
                              "Not currently connected. Nothing to disconnect.")
     ELSE disconnect(closeOk, "tool")

\* status.execute(): getStatus() of the signer
StatusExecute ==
  /\ SignerFrame
  /\ UNCHANGED <<bunkerSigner, clientSecretKey, userPubkey, relays,
                 pendingConnection, authFile, pendingFile, nextKey, restored>>
  /\ lastCall' = [Call("status", "tool", TRUE,
                       IF isConnected THEN "connected" ELSE "not connected")
                  EXCEPT !.identity = getUserNpub]

\* pubkey.execute()
PubkeyExecute ==
  /\ SignerFrame
  /\ UNCHANGED <<bunkerSigner, clientSecretKey, userPubkey, relays,
                 pendingConnection, authFile, pendingFile, nextKey, restored>>
  /\ IF ~isConnected
     THEN lastCall' = Call("get_pubkey", "tool", FALSE,
                           "Not connected. Use shakespeare_connect first to authenticate.")
     ELSE lastCall' = [Call("get_pubkey", "tool", TRUE, "connected")
                       EXCEPT !.identity = getUserNpub]

\* sign.execute(args); tagsOk: args.tags is absent or parses to an array
SignExecute(tagsOk, signed) ==
  /\ SignerFrame
  /\ IF ~isConnected
     THEN /\ UNCHANGED <<bunkerSigner, clientSecretKey, userPubkey, relays,
                         pendingConnection, authFile, pendingFile, nextKey, restored>>
          /\ lastCall' = SignCall("tool", FALSE,
                                  "Not connected. Use shakespeare_connect first to authenticate.",
                                  None)
     ELSE IF ~tagsOk
     THEN /\ UNCHANGED <<bunkerSigner, clientSecretKey, userPubkey, relays,
                         pendingConnection, authFile, pendingFile, nextKey, restored>>
          /\ lastCall' = SignCall("tool", FALSE, "Invalid tags JSON format", None)
     ELSE signEvent(signed, "tool")

\* ngit.execute(args) in a git repository with commits and without the ngit
\* CLI: sign the announcement and the state event, then publishEvents
NgitExecute(signed1, signed2, all) ==
  LET e == ensureBunkerSigner IN
  /\ SignerFrame
  /\ UNCHANGED <<clientSecretKey, userPubkey, relays, pendingConnection,
                 authFile, pendingFile, nextKey, restored>>
  /\ IF ~isConnected
     THEN /\ UNCHANGED bunkerSigner
          /\ lastCall' = Call("ngit", "tool", FALSE, "Not connected")
     ELSE IF ~e.ok
     THEN /\ UNCHANGED bunkerSigner
          /\ lastCall' = Call("ngit", "tool", FALSE, "Failed to publish to Nostr Git")
     ELSE /\ bunkerSigner' = e.handle
          /\ IF ~(signed1 /\ signed2)
             THEN lastCall' = [Call("ngit", "tool", FALSE, "Failed to publish to Nostr Git")
                               EXCEPT !.req = e.handle]
             ELSE lastCall' = [Call("ngit", "tool", TRUE, "Published Nostr events for repository!")
                               EXCEPT !.req = e.handle,
                                      !.success = publishEventsResult(all).success,
                                      !.total = publishEventsResult(all).total,
                                      !.results = all]

\* the fetch that createNip98Fetch() returns, called once: NIP98Client.fetch
\* signs the auth event with signEvent and then sends the request.  signed
\* is the outcome of the sign_event request, httpOk of the HTTP request.
Nip98Fetch(signed, httpOk) ==
  LET e == ensureBunkerSigner IN
  /\ SignerFrame
  /\ UNCHANGED <<clientSecretKey, userPubkey, relays, pendingConnection,
                 authFile, pendingFile, nextKey, restored>>
  /\ IF loadAuthState = None
     THEN /\ UNCHANGED bunkerSigner
          /\ lastCall' = [Call("fetch", "provider", FALSE,
                               "Not connected to Nostr. Run shakespeare_connect to authenticate.")
                          EXCEPT !.threw = TRUE]
     ELSE IF ~isConnected
     THEN /\ UNCHANGED bunkerSigner
          /\ lastCall' = [Call("fetch", "provider", FALSE,
                               "Failed to restore Nostr connection from saved credentials.")
                          EXCEPT !.threw = TRUE]
     ELSE IF ~e.ok
     THEN /\ UNCHANGED bunkerSigner
          /\ lastCall' = [Call("fetch", "provider", FALSE, e.msg) EXCEPT !.threw = TRUE]
     ELSE /\ bunkerSigner' = e.handle
          /\ IF ~signed
             THEN lastCall' = [Call("fetch", "provider", FALSE, "sign_event failed")
                               EXCEPT !.threw = TRUE, !.req = e.handle]
             ELSE lastCall' = [Call("fetch", "provider", httpOk,
                                    IF httpOk THEN "response" ELSE "fetch failed")
                               EXCEPT !.threw = ~httpOk, !.req = e.handle, !.http = TRUE]

\* deploy.execute(args); built: dist/ and dist/index.html exist
DeployExecute(built, signed, httpOk) ==
  LET e == ensureBunkerSigner IN
  /\ SignerFrame
  /\ UNCHANGED <<clientSecretKey, userPubkey, relays, pendingConnection,
                 authFile, pendingFile, nextKey, restored>>
  /\ IF ~isConnected
     THEN /\ UNCHANGED bunkerSigner
          /\ lastCall' = Call("deploy", "tool", FALSE,
                              "Not connected to Nostr. Please authenticate first")
     ELSE IF ~built
     THEN /\ UNCHANGED bunkerSigner
          /\ lastCall' = Call("deploy", "tool", FALSE, "No dist/ directory found")
     ELSE IF ~e.ok
     THEN /\ UNCHANGED bunkerSigner
          /\ lastCall' = Call("deploy", "tool", FALSE, "Deployment failed")
     ELSE /\ bunkerSigner' = e.handle
          /\ IF ~signed
             THEN lastCall' = [Call("deploy", "tool", FALSE, "Deployment failed")
                               EXCEPT !.req = e.handle]
             ELSE lastCall' = [Call("deploy", "tool", httpOk,
                                    IF httpOk THEN "Deployed to Shakespeare!"
                                              ELSE "Deployment failed")
                               EXCEPT !.req = e.handle, !.http = TRUE]

\* ShakespeareSigner.setRelays(relays)
setRelays(rs) ==
  /\ SignerFrame
  /\ relays' = IF Len(rs) > 0 THEN rs ELSE DEFAULT_RELAYS
  /\ UNCHANGED <<bunkerSigner, clientSecretKey, userPubkey, pendingConnection,
                 authFile, pendingFile, nextKey, restored>>
  /\ lastCall' = Call("setRelays", "signer", TRUE, "")

\* ------------------------------------------------ relay based sendRequest
\* nip44.getConversationKey: the key two parties share.  The client derives
\* it from its secret key and the peer's public key; the peer derives the
\* same key from the client's public key.
getConversationKey(sk, pubkey) == [client |-> getPublicKey(sk), peer |-> pubkey]
nip44encrypt(plaintext, conversationKey) ==
  [key |-> conversationKey, plaintext |-> plaintext]
\* nip44.decrypt throws when the payload was made under another key
nip44decrypt(ciphertext, conversationKey) ==
  [threw |-> ciphertext.key # conversationKey, text |-> ciphertext.plaintext]

\* decrypt(ciphertext, senderPubkey)
decrypt(ciphertext, senderPubkey) ==
  IF relaySigner.clientSecretKey = None
  THEN [threw |-> TRUE, text |-> ciphertext.plaintext]
  ELSE nip44decrypt(ciphertext,
                    getConversationKey(Val(relaySigner.clientSecretKey), senderPubkey))

\* the error strings a remote signer reports; which string is its choice
RemoteErrors == {"denied", "Request timeout"}
\* the responses a remote signer can give to the request id: a result, an
\* error, or neither
ResultOf(id) == IF id = "id1" THEN "signed-for-id1" ELSE "signed-for-id2"
Responses(id) ==
  { [id |-> id, result |-> Some(ResultOf(id)), error |-> None],
    [id |-> id, result |-> None, error |-> None] }
  \cup { [id |-> id, result |-> None, error |-> Some(e)] : e \in RemoteErrors }

\* a kind 24133 event by the remote signer that carries the text for the client
EventFor(clientPubkey, text) ==
  [pubkey  |-> Val(relaySigner.bunkerPubkey),
   content |-> nip44encrypt(text, [client |-> clientPubkey,
                                   peer |-> Val(relaySigner.bunkerPubkey)])]
ResponseEvent(response) ==
  EventFor(Val(relaySigner.clientPubkey), stringify(response))

\* events that carry no response for this client: one encrypted for another
\* client, one whose text is not JSON, one whose JSON is null
UndecryptableEvent == EventFor(<<"pub", 0>>, stringify(CHOOSE x \in Responses("id1") : TRUE))
UnparseableEvent == EventFor(Val(relaySigner.clientPubkey), [kind |-> "text", doc |-> [x |-> 0]])
NullEvent == EventFor(Val(relaySigner.clientPubkey), stringify(null))

\* what the subscriptions' filter lets through
InboundEvents ==
  IF relaySigner.bunkerPubkey = None \/ relaySigner.clientPubkey = None THEN {}
  ELSE {ResponseEvent(x) : x \in UNION {Responses(i) : i \in RequestIds}}
       \cup {UndecryptableEvent, UnparseableEvent, NullEvent}

\* history only: the kind of an event for the call r
KindFor(r, ev) ==
  IF ev \in {ResponseEvent(x) : x \in Responses(requestId[r])} THEN "own"
  ELSE IF ev \in {UndecryptableEvent, UnparseableEvent, NullEvent} THEN "noise"
  ELSE "other"

\* (a requestId kept in a field that the latest call overwrites)
requestIdOfLatestCall(r) ==
  IF \E q \in Requests : q # r /\ pc[q] # "idle"
  THEN requestId[CHOOSE q \in Requests : q # r /\ pc[q] # "idle"]
  ELSE requestId[r]

\* the requestId an onevent handler of the call r compares with: the const
\* of its own call
requestIdOf(r) == requestId[r]

\* (a handler that takes every response that parses)
isAnyResponse(response, r) == TRUE

\* response.id === requestId
isResponseTo(response, r) == response.id = requestIdOf(r)

\* sendRequest up to the await of the publishes
sendRequest(r) ==
  /\ RequestFrame
  /\ pc[r] = "idle"
  /\ UNCHANGED <<relaySigner, timeout, subs, seen>>
  /\ IF relaySigner.clientSecretKey = None \/ relaySigner.clientPubkey = None
        \/ relaySigner.bunkerPubkey = None
     THEN /\ pc' = [pc EXCEPT ![r] = "settled"]
          /\ outcome' = [outcome EXCEPT ![r] =
                           [kind |-> "threw", value |-> "Signer not connected",
                            by |-> None,
                            accepted |-> outcome[r].accepted,
                            missed |-> outcome[r].missed]]
          /\ UNCHANGED requestId
     ELSE /\ \E id \in RequestIds : requestId' = [requestId EXCEPT ![r] = id]
          /\ pc' = [pc EXCEPT ![r] = "publishing"]
          /\ UNCHANGED outcome

\* Promise.all over the publishes settles; when all are fulfilled the promise
\* executor arms the timer and subscribes on every relay
publishSettled(r, results) ==
  /\ RequestFrame
  /\ pc[r] = "publishing"
  /\ UNCHANGED <<relaySigner, requestId, seen>>
  /\ IF \E x \in ConnectedRelays : results[x] = "rejected"
     THEN /\ pc' = [pc EXCEPT ![r] = "settled"]
          /\ outcome' = [outcome EXCEPT ![r] =
                           [kind |-> "threw", value |-> "publish failed", by |-> None,
                            accepted |-> {x \in ConnectedRelays : results[x] = "fulfilled"},
                            missed |-> outcome[r].missed]]
          /\ UNCHANGED <<timeout, subs>>
     ELSE /\ pc' = [pc EXCEPT ![r] = "waiting"]
          /\ timeout' = [timeout EXCEPT ![r] = TRUE]
          /\ subs' = [subs EXCEPT ![r] = ConnectedRelays]
          /\ outcome' = [outcome EXCEPT ![r].accepted = ConnectedRelays]

\* the remote signer answers the request of the call r while the call still
\* awaits its publishes: a relay that took the envelope has passed it on, no
\* subscription of the call is open, and the response, an event of the
\* ephemeral kind 24133, reaches no handler
responseEmitted(r) ==
  /\ RequestFrame
  /\ pc[r] = "publishing"
  /\ subs[r] = {}
  /\ outcome' = [outcome EXCEPT ![r].missed = TRUE]
  /\ UNCHANGED <<relaySigner, requestId, pc, timeout, subs, seen>>

\* the timer of the call r fires
requestTimeout(r) ==
  /\ RequestFrame
  /\ timeout[r]
  /\ timeout' = [timeout EXCEPT ![r] = FALSE]
  /\ UNCHANGED <<relaySigner, requestId, subs, seen>>
  /\ IF outcome[r].kind = "pending"
     THEN /\ outcome' = [outcome EXCEPT ![r] =
                           [kind |-> "rejected", value |-> "Request timeout",
                            by |-> None,
                            accepted |-> outcome[r].accepted,
                            missed |-> outcome[r].missed]]
          /\ pc' = [pc EXCEPT ![r] = "settled"]
     ELSE UNCHANGED <<outcome, pc>>

\* onevent of the subscription of the call r on the relay x
onevent(r, x, responseEvent) ==
  LET decrypted == decrypt(responseEvent.content, responseEvent.pubkey)
      parsed == parse(decrypted.text)
      response == parsed.doc
      \* reading .id of null throws like the decryption and the parse do
      threw == decrypted.threw \/ parsed.threw \/ "id" \notin DOMAIN response
      truthy(field) == field # None /\ Val(field) # ""
  IN /\ RequestFrame
     /\ x \in subs[r]
     /\ seen' = [seen EXCEPT ![r] = @ \cup {KindFor(r, responseEvent)}]
     /\ UNCHANGED <<relaySigner, requestId>>
     /\ IF ~threw /\ isResponseTo(response, r)
        THEN /\ timeout' = [timeout EXCEPT ![r] = FALSE]
             /\ subs' = [subs EXCEPT ![r] = @ \ {x}]
             /\ pc' = [pc EXCEPT ![r] = "settled"]
             /\ IF outcome[r].kind # "pending"
                THEN UNCHANGED outcome
                ELSE IF truthy(response.error)
                THEN outcome' = [outcome EXCEPT ![r] =
                                   [kind |-> "rejected", value |-> Val(response.error),
                                    by |-> Some(responseEvent),
                                    accepted |-> outcome[r].accepted,
                                    missed |-> outcome[r].missed]]
                ELSE outcome' = [outcome EXCEPT ![r] =
                                   [kind |-> "resolved",
                                    value |-> IF truthy(response.result)
                                              THEN Val(response.result) ELSE "",
                                    by |-> Some(responseEvent),
                                    accepted |-> outcome[r].accepted,
                                    missed |-> outcome[r].missed]]
        ELSE UNCHANGED <<timeout, subs, pc, outcome>>

\* ------------------------------------------------------------ specification
\* the outcomes of a handshake: no acknowledgment; an acknowledgment from
\* ack and a rejected get_public_key; an acknowledgment and a public key
Handshakes ==
  {[ack |-> None, pk |-> None]}
  \cup {[ack |-> Some(a), pk |-> None] : a \in Pubkeys}
  \cup {[ack |-> Some(a), pk |-> Some(u)] : a \in Pubkeys, u \in Pubkeys}

\* how the relays of this.relays can settle one event
RelayResults == [1..Len(relays) -> Status]

\* relay lists passed to setRelays
RelayLists == {<< >>, <<"wss://relay.a">>, <<"wss://relay.a", "wss://relay.b">>}

\* Spec: connection life cycle and signing
Next ==
  \/ \E c \in CustomRelays, h \in Handshakes : connect(c, h.ack, h.pk, "signer")
  \/ \E c \in CustomRelays : initiateConnection(c)
  \/ \E h \in Handshakes : completeConnection(h.ack, h.pk, "signer")
  \/ \E closeOk \in BOOLEAN : disconnect(closeOk, "signer")
  \/ \E signed \in BOOLEAN : signEvent(signed, "signer")
  \/ constructor
  \/ \E args \in ToolRelayArgs, h \in Handshakes : ConnectExecute(args, h.ack, h.pk)
  \/ \E h \in Handshakes : CompleteExecute(h.ack, h.pk)
  \/ \E closeOk \in BOOLEAN : DisconnectExecute(closeOk)
  \/ \E tagsOk \in BOOLEAN, signed \in BOOLEAN : SignExecute(tagsOk, signed)

Spec == Init /\ [][Next]_vars

\* SpecPublish: the publish operations, which leave the signer's fields
\* alone, over the relay lists and connection states they can run in
NextPublish ==
  \/ \E rs \in RelayLists : setRelays(rs)
  \/ \E args \in ToolRelayArgs, h \in Handshakes : ConnectExecute(args, h.ack, h.pk)
  \/ \E results \in RelayResults : publishEvent(results)
  \/ \E m \in 0..MaxEvents : \E all \in [1..m -> RelayResults] : publishEvents(all)
  \/ \E s1 \in BOOLEAN, s2 \in BOOLEAN : \E all \in [1..2 -> RelayResults] :
       NgitExecute(s1, s2, all)

SpecPublish == Init /\ [][NextPublish]_vars

\* SpecRequest: the sendRequest calls of a signer whose session was restored
\* or is missing
InitRequest ==
  /\ bunkerSigner = None
  /\ clientSecretKey = None
  /\ userPubkey = None
  /\ relays = DEFAULT_RELAYS
  /\ pendingConnection = None
  /\ authFile = None
  /\ pendingFile = None
  /\ nextKey = 1
  /\ restored = FALSE
  /\ lastCall = Call("constructor", "signer", TRUE, "")
  /\ relaySigner \in {NoSession, RestoredSession}
  /\ requestId = [r \in Requests |-> ""]
  /\ pc = [r \in Requests |-> "idle"]
  /\ timeout = [r \in Requests |-> FALSE]
  /\ subs = [r \in Requests |-> {}]
  /\ outcome = [r \in Requests |-> Unsettled]
  /\ seen = [r \in Requests |-> {}]
  /\ NoUri
  /\ attempt = NoAttempt
  /\ NoPool
  /\ NoConsole

NextRequest ==
  \/ \E r \in Requests : sendRequest(r)
  \/ \E r \in Requests : \E results \in [ConnectedRelays -> Status] :
       publishSettled(r, results)
  \/ \E r \in Requests : requestTimeout(r)
  \/ \E r \in Requests, x \in ConnectedRelays, ev \in InboundEvents :
       onevent(r, x, ev)

SpecRequest == InitRequest /\ [][NextRequest]_vars

\* SpecEmit: the same calls, with a remote signer that may answer before the
\* subscriptions of the call are open
NextEmit ==
  \/ \E r \in Requests : sendRequest(r)
  \/ \E r \in Requests : \E results \in [ConnectedRelays -> Status] :
       publishSettled(r, results)
  \/ \E r \in Requests : requestTimeout(r)
  \/ \E r \in Requests : responseEmitted(r)
  \/ \E r \in Requests, x \in ConnectedRelays, ev \in InboundEvents :
       onevent(r, x, ev)

SpecEmit == InitRequest /\ [][NextEmit]_vars

\* an armed setTimeout timer fires, and the publishes to the relays settle
SpecRequestFair ==
  /\ SpecRequest
  /\ \A r \in Requests :
       /\ WF_vars(requestTimeout(r))
       /\ WF_vars(\E results \in [ConnectedRelays -> Status] : publishSettled(r, results))

\* SpecTools: the tools, on a signer whose two-step flow has been started by
\* initiateConnection() and that is restarted at any time
NextTools ==
  \/ \E args \in ToolRelayArgs, h \in Handshakes : ConnectExecute(args, h.ack, h.pk)
  \/ \E h \in Handshakes : CompleteExecute(h.ack, h.pk)
  \/ \E closeOk \in BOOLEAN : DisconnectExecute(closeOk)
  \/ \E tagsOk \in BOOLEAN, signed \in BOOLEAN : SignExecute(tagsOk, signed)
  \/ StatusExecute
  \/ PubkeyExecute
  \/ \E c \in CustomRelays : initiateConnection(c)
  \/ constructor

SpecTools == Init /\ [][NextTools]_vars

\* SpecHttp: the two callers that sign an HTTP request, in every state the
\* connection life cycle of the signer reaches
NextHttp ==
  \/ \E c \in CustomRelays, h \in Handshakes : connect(c, h.ack, h.pk, "signer")
  \/ \E c \in CustomRelays : initiateConnection(c)
  \/ \E h \in Handshakes : completeConnection(h.ack, h.pk, "signer")
  \/ \E closeOk \in BOOLEAN : disconnect(closeOk, "signer")
  \/ constructor
  \/ \E signed \in BOOLEAN, httpOk \in BOOLEAN : Nip98Fetch(signed, httpOk)
  \/ \E built \in BOOLEAN, signed \in BOOLEAN, httpOk \in BOOLEAN :
       DeployExecute(built, signed, httpOk)

SpecHttp == Init /\ [][NextHttp]_vars

\* SpecLoad: the operations that load from the store, over stores whose
\* files were written by an earlier process, another version or an editor
ValidUri ==
  createNostrConnectURI(getPublicKey(1), DEFAULT_RELAYS, <<"secret", 1>>,
                        "Shakespeare", <<"sign_event">>)
NotJson == [kind |-> "text", doc |-> [x |-> 0]]
SessionRecord(key, user) ==
  [clientSecretKey |-> key,
   clientPubkey    |-> getPublicKey(1),
   bunkerPubkey    |-> "pkA",
   userPubkey      |-> user,
   relays          |-> DEFAULT_RELAYS,
   connectedAt     |-> 1,
   permissions     |-> <<"sign_event">>]
\* the object {} read as a Session: every property is undefined
EmptySession ==
  [clientSecretKey |-> undefinedText,
   clientPubkey    |-> undefinedText,
   bunkerPubkey    |-> undefinedHex,
   userPubkey      |-> undefinedHex,
   relays          |-> undefinedRelays,
   connectedAt     |-> 0,
   permissions     |-> undefinedRelays]
PendingRecord(key, uri, rs) ==
  [clientSecretKey |-> key, nostrconnectUri |-> uri, relays |-> rs, createdAt |-> 1]

\* auth.json: a Session as connect() writes it; text that is not JSON; null;
\* {}; a Session whose key is not bech32, is an npub, or whose userPubkey
\* is missing
StoredSessions ==
  { stringify(SessionRecord(nsecEncode(1), "pkA")),
    NotJson,
    stringify(null),
    stringify(EmptySession),
    stringify(SessionRecord(<<"garbage">>, "pkA")),
    stringify(SessionRecord(npubEncode("pkA"), "pkA")),
    stringify(SessionRecord(nsecEncode(1), undefinedHex)) }

\* pending.json: a pending connection as initiateConnection() writes it;
\* text that is not JSON; null; one whose key is not bech32, is an npub, or
\* whose nostrconnectUri or relays are missing
StoredPendings ==
  { stringify(PendingRecord(nsecEncode(1), ValidUri, DEFAULT_RELAYS)),
    NotJson,
    stringify(null),
    stringify(PendingRecord(<<"garbage">>, ValidUri, DEFAULT_RELAYS)),
    stringify(PendingRecord(npubEncode("pkA"), ValidUri, DEFAULT_RELAYS)),
    stringify(PendingRecord(nsecEncode(1), undefinedUri, DEFAULT_RELAYS)),
    stringify(PendingRecord(nsecEncode(1), ValidUri, undefinedRelays)) }

\* a process that was constructed over such a store
InitLoad ==
  /\ authFile \in {None} \cup {Some(t) : t \in StoredSessions}
  /\ pendingFile \in {None} \cup {Some(t) : t \in StoredPendings}
  /\ bunkerSigner = restoreCredentials.bunkerSigner
  /\ clientSecretKey = restoreCredentials.clientSecretKey
  /\ userPubkey = restoreCredentials.userPubkey
  /\ relays = restoreCredentials.relays
  /\ pendingConnection = None
  /\ nextKey = 1
  /\ restored = (clientSecretKey # None)
  /\ lastCall = Call("constructor", "signer", TRUE, "")
  /\ relaySigner = NoSession
  /\ requestId = [r \in Requests |-> ""]
  /\ pc = [r \in Requests |-> "idle"]
  /\ timeout = [r \in Requests |-> FALSE]
  /\ subs = [r \in Requests |-> {}]
  /\ outcome = [r \in Requests |-> Unsettled]
  /\ seen = [r \in Requests |-> {}]
  /\ NoUri
  /\ attempt = NoAttempt
  /\ NoPool
  /\ NoConsole

NextLoad ==
  \/ constructor
  \/ \E h \in Handshakes : completeConnection(h.ack, h.pk, "signer")
  \/ \E h \in Handshakes : CompleteExecute(h.ack, h.pk)
  \/ \E signed \in BOOLEAN : signEvent(signed, "signer")
  \/ \E tagsOk \in BOOLEAN, signed \in BOOLEAN : SignExecute(tagsOk, signed)
  \/ \E closeOk \in BOOLEAN : disconnect(closeOk, "signer")

SpecLoad == InitLoad /\ [][NextLoad]_vars

\* SpecUri: the URI builders as pure functions, over bounded relay lists and
\* secrets, and the text read back
\* longest relay URL and secret, in characters
MaxText == 2
\* longest relay list
MaxRelays == 2
Texts == UNION {[1..n -> UriChars] : n \in 0..MaxText}
RelayTexts == UNION {[1..n -> Texts] : n \in 0..MaxRelays}
\* what bytesToHex returns: hex digits only
HexTexts == {t \in Texts : t # << >> /\ \A i \in 1..Len(t) : t[i] = "a"}

InitUri ==
  /\ bunkerSigner = None
  /\ clientSecretKey = None
  /\ userPubkey = None
  /\ relays = DEFAULT_RELAYS
  /\ pendingConnection = None
  /\ authFile = None
  /\ pendingFile = None
  /\ nextKey = 1
  /\ restored = FALSE
  /\ lastCall = Call("constructor", "signer", TRUE, "")
  /\ relaySigner = NoSession
  /\ requestId = [r \in Requests |-> ""]
  /\ pc = [r \in Requests |-> "idle"]
  /\ timeout = [r \in Requests |-> FALSE]
  /\ subs = [r \in Requests |-> {}]
  /\ outcome = [r \in Requests |-> Unsettled]
  /\ seen = [r \in Requests |-> {}]
  /\ \/ uriParams \in [via : {"createNostrConnectURI"}, clientPubkey : HexTexts,
                        relays : RelayTexts, secret : Texts]
     \/ uriParams \in [via : {"manual"}, clientPubkey : HexTexts,
                        relays : RelayTexts, secret : HexTexts]
  /\ uriText = << >>
  /\ uriParsed = None
  /\ attempt = NoAttempt
  /\ NoPool
  /\ NoConsole

\* createNostrConnectURI called as connect() and initiateConnection() call it
buildUri ==
  /\ uriParams.via = "createNostrConnectURI"
  /\ uriText = << >>
  /\ uriText' = UriText(createNostrConnectURI(uriParams.clientPubkey, uriParams.relays,
                                              uriParams.secret, "Shakespeare",
                                              <<"sign_event">>))
  /\ UNCHANGED <<uriParams, uriParsed>>
  /\ UriFrame

\* the URI built by hand in the relay based connect()
buildManualUri ==
  /\ uriParams.via = "manual"
  /\ uriText = << >>
  /\ uriText' = manualUri(uriParams.clientPubkey, uriParams.relays, uriParams.secret)
  /\ UNCHANGED <<uriParams, uriParsed>>
  /\ UriFrame

\* the signer app reads the URI it scanned
parseUri ==
  /\ uriText # << >>
  /\ uriParsed = None
  /\ uriParsed' = Some(parseNostrConnectURI(uriText))
  /\ UNCHANGED <<uriParams, uriText>>
  /\ UriFrame

NextUri ==
  \/ buildUri
  \/ buildManualUri
  \/ parseUri

SpecUri == InitUri /\ [][NextUri]_vars

\* SpecConnect: connect() of the relay based signer, one step per promise
\* continuation, timer and subscription callback
\* what a connect response can carry as its result
ConnectResults == {attempt.secret, <<"ack">>, <<"other">>}
\* a kind 24133 event by author for the client key of the signer
ConnectEvent(author, result) ==
  [pubkey  |-> author,
   content |-> nip44encrypt(stringify([result |-> result]),
                            [client |-> Val(relaySigner.clientPubkey), peer |-> author])]
\* one that was encrypted for another client
ForeignEvent(author) ==
  [pubkey  |-> author,
   content |-> nip44encrypt(stringify([result |-> <<"ack">>]),
                            [client |-> <<"pub", 0>>, peer |-> author])]
\* what the subscriptions' filter lets through
ConnectEvents ==
  IF relaySigner.clientPubkey = None THEN {}
  ELSE {ConnectEvent(a, x) : a \in Pubkeys, x \in ConnectResults}
       \cup {ForeignEvent(a) : a \in Pubkeys}

\* the AuthState the onevent handler of connect() saves
relayConnectState(sk, clientPubkey, bunker, user, rs) ==
  [clientSecretKey |-> nsecEncode(sk),
   clientPubkey    |-> clientPubkey,
   bunkerPubkey    |-> bunker,
   userPubkey      |-> user,
   relays          |-> rs,
   connectedAt     |-> Now,
   permissions     |-> <<"sign_event">>]

\* the relay URLs of this.relays, and the answers to get_public_key
RelayUrls == UNION {{rs[i] : i \in 1..Len(rs)} : rs \in RelayLists \cup {DEFAULT_RELAYS}}
PublicKeyAnswers == {None} \cup {Some(k) : k \in Pubkeys}

\* the loop of connectToRelays(): the relays of rs, in order, whose
\* Relay.connect() resolved; a relay that fails is logged and skipped
RECURSIVE connectedOf(_, _)
connectedOf(rs, reachable) ==
  IF rs = << >> THEN << >>
  ELSE (IF Head(rs) \in reachable THEN <<Head(rs)>> ELSE << >>)
       \o connectedOf(Tail(rs), reachable)

\* mutant: one relay that fails aborts the operation
connectToRelaysAllOrNothing(rs, reachable) ==
  LET connected == connectedOf(rs, reachable) IN
  IF Len(connected) < Len(rs) \/ Len(connected) = 0
  THEN [threw |-> TRUE, msg |-> "Failed to connect to any relay", relays |-> << >>]
  ELSE [threw |-> FALSE, msg |-> "", relays |-> connected]

\* connectToRelays(): reachable are the relays Relay.connect() reaches
connectToRelays(rs, reachable) ==
  LET connected == connectedOf(rs, reachable) IN
  IF Len(connected) = 0
  THEN [threw |-> TRUE, msg |-> "Failed to connect to any relay", relays |-> << >>]
  ELSE [threw |-> FALSE, msg |-> "", relays |-> connected]

\* connect(customRelays) up to the return of the promise
relayConnect(customRelays, reachable) ==
  LET rs == IF Len(customRelays) > 0 THEN customRelays
            ELSE IF attempt.pc = "idle" THEN DEFAULT_RELAYS ELSE attempt.relays
      sk == generateSecretKey
      result == connectToRelays(rs, reachable)
      connected == {result.relays[i] : i \in 1..Len(result.relays)}
  IN /\ attempt.pc # "waiting"
     /\ nextKey <= MaxKeys
     /\ nextKey' = nextKey + 1
     /\ relaySigner' = [relaySigner EXCEPT !.clientSecretKey = Some(sk),
                                           !.clientPubkey = Some(getPublicKey(sk))]
     /\ attempt' = IF result.threw
                   THEN [attempt EXCEPT !.pc = "threw", !.relays = rs,
                                        !.secret = generateSecret, !.by = None,
                                        !.reached = reachable \cap {rs[i] : i \in 1..Len(rs)},
                                        !.error = result.msg]
                   ELSE [attempt EXCEPT !.pc = "waiting", !.timer = TRUE,
                                        !.subs = connected, !.relays = rs,
                                        !.secret = generateSecret, !.by = None,
                                        !.reached = reachable \cap {rs[i] : i \in 1..Len(rs)},
                                        !.error = ""]
     /\ UNCHANGED <<bunkerSigner, clientSecretKey, userPubkey, relays,
                    pendingConnection, authFile, pendingFile, restored, lastCall>>
     /\ UNCHANGED <<requestId, pc, timeout, subs, outcome, seen>>
     /\ UNCHANGED <<uriVars, poolVars, consoleVars>>

\* the setTimeout callback: it rejects, and does nothing else
connectTimeout ==
  /\ attempt.timer
  /\ attempt' = [attempt EXCEPT
                   !.timer = FALSE,
                   !.pc = IF attempt.pc = "waiting" THEN "rejected" ELSE @,
                   !.error = IF attempt.pc = "waiting"
                             THEN "Connection timeout - no response from bunker within 5 minutes"
                             ELSE @]
  /\ UNCHANGED <<signerVars, requestVars, uriVars, poolVars, consoleVars>>

\* the onevent handler of the subscription on relay x; gpk is the answer to
\* get_public_key (None: the request failed), saved is whether
\* saveAuthState() returned (FALSE: writeFileSync threw).  What the handler
\* throws is caught by its own catch block, which does nothing.
connectOnevent(x, event, gpk, saved) ==
  LET decrypted == decrypt(event.content, event.pubkey)
      response == parse(decrypted.text)
      user == IF gpk = None THEN event.pubkey ELSE Val(gpk)
  IN /\ x \in attempt.subs
     /\ IF ~decrypted.threw /\ ~response.threw
           /\ (response.doc.result = attempt.secret \/ response.doc.result = <<"ack">>)
        THEN /\ attempt' = [attempt EXCEPT
                              !.timer = FALSE,
                              !.subs = @ \ {x},
                              !.userPubkey = Some(user),
                              !.by = Some(response.doc.result),
                              !.pc = IF @ = "waiting" /\ saved THEN "resolved" ELSE @]
             /\ relaySigner' = [relaySigner EXCEPT !.bunkerPubkey = Some(event.pubkey)]
             /\ IF saved
                THEN authFile' = saveAuthState(
                       relayConnectState(Val(relaySigner.clientSecretKey),
                                         Val(relaySigner.clientPubkey),
                                         event.pubkey, user, attempt.relays))
                ELSE UNCHANGED authFile
        ELSE UNCHANGED <<attempt, relaySigner, authFile>>
     /\ UNCHANGED <<bunkerSigner, clientSecretKey, userPubkey, relays,
                    pendingConnection, pendingFile, nextKey, restored, lastCall>>
     /\ UNCHANGED <<requestId, pc, timeout, subs, outcome, seen>>
     /\ UNCHANGED <<uriVars, poolVars, consoleVars>>

NextConnect ==
  \/ \E customRelays \in RelayLists, reachable \in SUBSET RelayUrls :
       relayConnect(customRelays, reachable)
  \/ connectTimeout
  \/ \E x \in RelayUrls, gpk \in PublicKeyAnswers, saved \in BOOLEAN,
        event \in ConnectEvents :
       connectOnevent(x, event, gpk, saved)

SpecConnect == Init /\ [][NextConnect]_vars

\* an armed setTimeout timer fires
SpecConnectFair == SpecConnect /\ WF_vars(connectTimeout)

\* ------------------------------- SpecStore: a store other processes write
\* the constructor when BunkerSigner.fromBunker() throws
constructorCaught ==
  /\ SignerFrame
  /\ LET r == restoreCredentialsCaught IN
     /\ bunkerSigner' = r.bunkerSigner
     /\ clientSecretKey' = r.clientSecretKey
     /\ userPubkey' = r.userPubkey
     /\ relays' = r.relays
     /\ pendingConnection' = None
     /\ restored' = (r.clientSecretKey # None)
     /\ UNCHANGED <<authFile, pendingFile, nextKey>>
     /\ lastCall' = Call("constructor", "signer", TRUE, "")

\* another process runs disconnect(): its clearAuthState() removes the file
storeCleared ==
  /\ SignerFrame
  /\ authFile # None
  /\ authFile' = clearAuthState
  /\ UNCHANGED <<bunkerSigner, clientSecretKey, userPubkey, relays,
                 pendingConnection, pendingFile, nextKey, restored, lastCall>>

NextStore ==
  \/ constructor
  \/ constructorCaught
  \/ storeCleared
  \/ \E signed \in BOOLEAN : signEvent(signed, "signer")
  \/ \E tagsOk \in BOOLEAN, signed \in BOOLEAN : SignExecute(tagsOk, signed)
  \/ \E closeOk \in BOOLEAN : disconnect(closeOk, "signer")

SpecStore == InitLoad /\ [][NextStore]_vars

\* ------------------------------------------------ SpecPool: relay connections
\* the connections one relay URL can have open at a time in the model
MaxSockets == 2
\* the values of this.relays the operations run with
PoolRelayLists ==
  {<<"wss://relay.a">>, <<"wss://relay.a", "wss://relay.a">>,
   <<"wss://relay.a", "wss://relay.b">>}
\* the connections open to a relay URL
socketsOf(url) == {c \in sockets : c[1] = url}
\* a connection Relay.connect(url) returns: one that is not open yet
newRelay(url) ==
  <<url, CHOOSE n \in 1..(MaxSockets + 1) : <<url, n>> \notin sockets>>
\* connectedRelays.set(url, relay)
cacheSet(cache, url, relay) ==
  [u \in DOMAIN cache \cup {url} |-> IF u = url THEN relay ELSE cache[u]]
\* the loop of connectToRelays() up to its next await: cached URLs are pushed
\* from the cache; it stops at the first URL that has no cached connection
RECURSIVE loopToAwait(_, _, _)
loopToAwait(rest, cache, connected) ==
  IF rest = << >> THEN [rest |-> << >>, connected |-> connected]
  ELSE IF Head(rest) \in DOMAIN cache
       THEN loopToAwait(Tail(rest), cache, Append(connected, cache[Head(rest)]))
       ELSE [rest |-> rest, connected |-> connected]
\* the position of the operation after the loop ran on: awaiting
\* Relay.connect(url), or past the loop (returned, or threw on an empty list)
positionAfter(rest, cache, connected) ==
  LET at == loopToAwait(rest, cache, connected) IN
  IF at.rest # << >>
  THEN [pc |-> "connecting", url |-> Head(at.rest), rest |-> Tail(at.rest),
        connected |-> at.connected]
  ELSE [pc |-> IF Len(at.connected) = 0 THEN "threw" ELSE "returned",
        url |-> "", rest |-> << >>, connected |-> at.connected]

\* an operation (sign, publish, connect) calls connectToRelays() with
\* this.relays = rs and runs to its first await
connectToRelaysCall(p, rs) ==
  /\ connecting[p].pc # "connecting"
  /\ connecting' = [connecting EXCEPT ![p] = positionAfter(rs, connectedRelays, << >>)]
  /\ UNCHANGED <<connectedRelays, sockets, consoleVars>>
  /\ UNCHANGED <<signerVars, requestVars, uriVars, attempt>>

\* await Relay.connect(url) settles: the connection is cached and pushed, or
\* the failure is logged; the loop runs on to its next await
relayConnectSettled(p, ok) ==
  LET url == connecting[p].url
      relay == newRelay(url)
      cache == IF ok THEN cacheSet(connectedRelays, url, relay) ELSE connectedRelays
      connected == IF ok THEN Append(connecting[p].connected, relay)
                   ELSE connecting[p].connected
  IN /\ connecting[p].pc = "connecting"
     /\ ok => Cardinality(socketsOf(url)) < MaxSockets
     /\ sockets' = IF ok THEN sockets \cup {relay} ELSE sockets
     /\ connectedRelays' = cache
     /\ connecting' = [connecting EXCEPT
                         ![p] = positionAfter(connecting[p].rest, cache, connected)]
     /\ UNCHANGED consoleVars
     /\ UNCHANGED <<signerVars, requestVars, uriVars, attempt>>

\* disconnect() of the relay based signer
relayDisconnect ==
  /\ sockets' = sockets \ {connectedRelays[u] : u \in DOMAIN connectedRelays}
  /\ connectedRelays' = << >>
  /\ relaySigner' = NoSession
  /\ authFile' = clearAuthState
  /\ UNCHANGED <<connecting, consoleVars>>
  /\ UNCHANGED <<bunkerSigner, clientSecretKey, userPubkey, relays,
                 pendingConnection, pendingFile, nextKey, restored, lastCall>>
  /\ UNCHANGED <<requestId, pc, timeout, subs, outcome, seen>>
  /\ UNCHANGED <<uriVars, attempt>>

NextPool ==
  \/ \E p \in Operations, rs \in PoolRelayLists : connectToRelaysCall(p, rs)
  \/ \E p \in Operations, ok \in BOOLEAN : relayConnectSettled(p, ok)
  \/ relayDisconnect

SpecPool == InitRequest /\ [][NextPool]_vars

\* --------------------------------------- SpecConsole: console.debug swapped
\* the empty function suppressDebug() installs in the call c
noop(c) == <<"noop", c>>
\* suppressDebug() called in c while console.debug is current: what
\* console.debug becomes, and what the returned closure puts back
suppressDebug(c, current) == [debug |-> noop(c), original |-> current]
\* the try/finally of ensureBunkerSigner(): suppressDebug(), fromBunker(),
\* restoreDebug(), without an await in between
ensureSuppressed(c, current) == suppressDebug(c, current).original
\* how ensureBunkerSigner() can end: the handle was there, it was created,
\* or the call threw before any suppressDebug()
Ensured == {"had handle", "created", "threw"}

\* signEvent(eventTemplate) up to its await
signEventCall(c, ensured) ==
  LET current == IF ensured = "created" THEN ensureSuppressed(c, consoleDebug)
                 ELSE consoleDebug
      s == suppressDebug(c, current)
  IN /\ signing[c] # "awaiting"
     /\ IF ensured = "threw"
        THEN /\ signing' = [signing EXCEPT ![c] = "rejected"]
             /\ UNCHANGED <<consoleDebug, restoreDebug>>
        ELSE /\ consoleDebug' = s.debug
             /\ restoreDebug' = [restoreDebug EXCEPT ![c] = Some(s.original)]
             /\ signing' = [signing EXCEPT ![c] = "awaiting"]
     /\ UNCHANGED <<signerVars, requestVars, uriVars, attempt, poolVars>>

\* the await of bunkerSigner.signEvent() settles and the finally block runs
\* restoreDebug()
signEventSettled(c, ok) ==
  /\ signing[c] = "awaiting"
  /\ consoleDebug' = Val(restoreDebug[c])
  /\ restoreDebug' = [restoreDebug EXCEPT ![c] = None]
  /\ signing' = [signing EXCEPT ![c] = IF ok THEN "resolved" ELSE "rejected"]
  /\ UNCHANGED <<signerVars, requestVars, uriVars, attempt, poolVars>>

NextConsole ==
  \/ \E c \in SignCalls, ensured \in Ensured : signEventCall(c, ensured)
  \/ \E c \in SignCalls, ok \in BOOLEAN : signEventSettled(c, ok)

SpecConsole == Init /\ [][NextConsole]_vars

\* ================================================================= claims
\* the messages of a not-connected failure (signer and sign tool)
NotConnectedMessages ==
  {"Not connected. Use shakespeare_connect first.",
   "Not connected. Use shakespeare_connect first to authenticate."}

\* the handle the persisted Session describes
StoredHandle ==
  [sk |-> decode(Val(loadAuthState).clientSecretKey).data,
   bp |-> [pubkey |-> Val(loadAuthState).bunkerPubkey,
           relays |-> Val(loadAuthState).relays]]

\* the pending connection completeConnection() works on
PendingUsed ==
  IF pendingConnection # None THEN pendingConnection
  ELSE loadPendingConnectionFromDisk.pending

\* C1: in the state a returned disconnect() leaves, isConnected() is false,
\* and a sign call made next (signer or sign tool) fails with a not-connected
\* message without sending a request.
C1_DisconnectThenSignFails ==
  [][(lastCall.op = "disconnect" /\ lastCall.msg = "disconnected")
       => /\ ~isConnected
          /\ (lastCall'.op = "signEvent"
                => /\ ~lastCall'.ok
                   /\ lastCall'.req = None
                   /\ lastCall'.msg \in NotConnectedMessages)]_vars

\* C1 witness: a sign call right after a disconnect() that returned, made on
\* a signer that was connected, has failed as not connected
C1_Witness ==
  /\ lastCall.op = "signEvent"
  /\ lastCall.after = <<"disconnect", "disconnected">>
  /\ ~lastCall.ok /\ lastCall.req = None
  /\ lastCall.msg \in NotConnectedMessages
  /\ nextKey > 1

\* C2: while the credentials in memory are those a new process restored from
\* a persisted Session, isConnected() is true and a sign call sends its
\* request through a handle made of the stored client key, remote signer key
\* and relays, without generating a key or writing the Session.
C2_RestartThenSign ==
  [][restored
       => /\ loadAuthState # None
          /\ isConnected
          /\ ((lastCall'.op = "signEvent" /\ lastCall'.msg # "Invalid tags JSON format")
                => /\ lastCall'.req = Some(StoredHandle)
                   /\ UNCHANGED <<nextKey, authFile, clientSecretKey, userPubkey>>)]_vars

\* C2 witness: the first call after a restart over a persisted Session was a
\* sign call and its request went through the stored handle
C2_Witness ==
  /\ restored
  /\ lastCall.op = "signEvent"
  /\ lastCall.after[1] = "constructor"
  /\ lastCall.ok
  /\ lastCall.req = Some(StoredHandle)

\* the response an event carries for this client, read the way onevent reads it
Carried(ev) == parse(decrypt(ev.content, ev.pubkey).text).doc
\* the event decrypts, parses and carries a response
CarriesResponse(ev) ==
  /\ ~decrypt(ev.content, ev.pubkey).threw
  /\ ~parse(decrypt(ev.content, ev.pubkey).text).threw
  /\ "id" \in DOMAIN Carried(ev)
\* the promise of the call r was settled by an inbound event
SettledByEvent(r) == outcome[r].kind \in {"resolved", "rejected"} /\ outcome[r].by # None

\* C3: a sendRequest call that got to wait for its response is resolved with a
\* result (or rejected with the remote error) only by an inbound event that
\* decrypts, parses and carries the id of the call; a call that has been
\* delivered no such event has resolved with nothing, and if it has settled it
\* has settled as 'Request timeout'.
C3_ResolvesOnlyOnMatch ==
  \A r \in Requests :
    /\ outcome[r].kind = "resolved" => outcome[r].by # None
    /\ SettledByEvent(r)
         => /\ CarriesResponse(Val(outcome[r].by))
            /\ Carried(Val(outcome[r].by)).id = requestId[r]
            /\ "own" \in seen[r]
    /\ ("own" \notin seen[r] /\ pc[r] = "settled" /\ outcome[r].kind # "threw")
         => /\ outcome[r].kind = "rejected"
            /\ outcome[r].value = "Request timeout"
            /\ outcome[r].by = None

\* C3 witness: one call was delivered undecryptable, unparseable or other-id
\* events only and ended as a timeout; the other was delivered such events
\* too and resolved on the response with its id
C3_Witness ==
  /\ seen["call1"] = {"noise", "other"}
  /\ outcome["call1"].value = "Request timeout"
  /\ {"noise", "other", "own"} \subseteq seen["call2"]
  /\ outcome["call2"].kind = "resolved"
  /\ outcome["call2"].value = ResultOf(requestId["call2"])

\* C4: of two calls in flight with distinct request ids, each is settled only
\* by a response that carries its own id and never by one that carries the
\* other's, and it resolves with the result of that response, whatever the
\* order in which the responses are delivered on the relays.
C4_ConcurrentRequestsKeepTheirOwn ==
  \A r \in Requests : \A q \in Requests \ {r} :
    (pc[r] # "idle" /\ pc[q] # "idle" /\ requestId[r] # requestId[q]
       /\ outcome[r].kind \in {"resolved", "rejected"} /\ outcome[r].by # None)
      => /\ Carried(Val(outcome[r].by)).id = requestId[r]
         /\ Carried(Val(outcome[r].by)).id # requestId[q]
         /\ outcome[r].kind = "resolved"
              => outcome[r].value \in {ResultOf(requestId[r]), ""}

\* C4 witness: two calls with distinct ids were each delivered the other's
\* response and their own, on both relays, and each resolved with the result
\* for its own id
C4_Witness ==
  /\ requestId["call1"] # requestId["call2"]
  /\ \A r \in Requests :
       /\ {"other", "own"} \subseteq seen[r]
       /\ subs[r] = {}
       /\ outcome[r].kind = "resolved"
       /\ outcome[r].value = ResultOf(requestId[r])

\* C5 (as claimed): a completeConnection() that fails in the handshake leaves
\* no pending connection in memory or in the store, writes no Session and
\* leaves isConnected() false.
C5_FailedCompleteLeavesNothing ==
  [][(lastCall'.op = "completeConnection"
      /\ lastCall'.msg \in {"handshake timed out", "get_public_key failed"})
       => /\ ~lastCall'.ok
          /\ pendingConnection' = None
          /\ pendingFile' = None
          /\ authFile' = authFile
          /\ ~isConnected']_vars

\* C6: a completeConnection() that succeeds leaves a Session whose userPubkey
\* is the get_public_key answer and whose relays are those recorded in the
\* pending connection it worked on, and no pending connection in memory or
\* in the store.
C6_CompleteSuccess ==
  [][(lastCall'.op = "completeConnection" /\ lastCall'.msg = "Connected successfully!")
       => /\ PendingUsed # None
          /\ loadAuthState' # None
          /\ Val(loadAuthState').userPubkey = Val(lastCall'.pk)
          /\ Val(loadAuthState').relays = Val(PendingUsed).relays
          /\ pendingConnection' = None
          /\ pendingFile' = None]_vars

\* C6 witness: the scenario of the spec: an invitation over relay.a and
\* relay.b was completed, the signer answered get_public_key with a key that
\* is not its own, and the Session holds that key and those relays
C6_Witness ==
  /\ lastCall.op = "completeConnection"
  /\ lastCall.msg = "Connected successfully!"
  /\ lastCall.ack # lastCall.pk
  /\ loadAuthState # None
  /\ Val(loadAuthState).userPubkey = Val(lastCall.pk)
  /\ Val(loadAuthState).relays = <<"wss://relay.a", "wss://relay.b">>
  /\ pendingConnection = None /\ pendingFile = None

\* C7 (as claimed): right after a handshake succeeded, by connect() or by
\* completeConnection(), no pending connection remains in memory or in the
\* store.
C7_SuccessClearsPending ==
  lastCall.msg = "Connected successfully!"
    => pendingConnection = None /\ pendingFile = None

\* C10 (as claimed): connect / initiateConnection called while connected
\* reports the existing identity and leaves client key, user public key and
\* Session alone, and the user public key never changes from one identity to
\* another without a disconnect in between.
C10_ConnectedShortCircuits ==
  [][/\ (isConnected /\ lastCall'.op \in {"connect", "initiateConnection"})
          => /\ lastCall'.identity = getUserNpub
             /\ UNCHANGED <<clientSecretKey, userPubkey, authFile>>
     /\ (userPubkey # None /\ userPubkey' # None) => userPubkey' = userPubkey]_vars

\* the number of (event, relay) pairs of a publish call whose relay accepted
Accepted(all) ==
  Cardinality({x \in (1..Len(all)) \X (1..Len(relays)) : all[x[1]][x[2]] = "fulfilled"})

\* C8 (as claimed): publishEvent over N relays of which K accept returns
\* success = K and total = N, and a publish that no relay accepted is
\* reported to the user of the ngit tool as a failure.
C8_PublishReportsKofN ==
  /\ lastCall.op = "publishEvent"
       => /\ lastCall.success = Accepted(lastCall.results)
          /\ lastCall.total = Len(relays)
  /\ (lastCall.op = "ngit" /\ lastCall.results # << >> /\ Accepted(lastCall.results) = 0)
       => ~lastCall.ok

NoPendingMessages ==
  {"No pending connection. Run shakespeare_connect first.",
   "No pending connection. Run shakespeare_connect first to generate a QR code."}

\* C11: completeConnection() called while no pending connection is held in
\* memory or stored (by the signer, or by the complete tool of a signer that
\* is not connected) reports a 'No pending connection' error and changes
\* nothing: no Session is written and no handle is created.
C11_CompleteWithoutPending ==
  [][(/\ lastCall'.op = "completeConnection"
      /\ pendingConnection = None /\ pendingFile = None
      /\ (lastCall'.via = "signer" \/ ~isConnected))
       => /\ ~lastCall'.ok
          /\ lastCall'.msg \in NoPendingMessages
          /\ UNCHANGED <<bunkerSigner, clientSecretKey, userPubkey, relays,
                         pendingConnection, authFile, pendingFile, nextKey>>]_vars

\* C11 witness: completeConnection() was called on a connected signer that
\* held no pending connection; it reported the error and the Session and the
\* credentials are still there
C11_Witness ==
  /\ lastCall.op = "completeConnection"
  /\ lastCall.via = "signer"
  /\ lastCall.msg \in NoPendingMessages
  /\ lastCall.wasConnected
  /\ isConnected /\ authFile # None /\ bunkerSigner # None
  /\ pendingConnection = None /\ pendingFile = None

\* a stored Session in which every field is set and the client key decodes
FullyPopulated(doc) ==
  /\ ~decode(doc.clientSecretKey).threw
  /\ decode(doc.clientSecretKey).type = "nsec"
  /\ doc.clientPubkey = getPublicKey(decode(doc.clientSecretKey).data)
  /\ doc.bunkerPubkey \in Pubkeys
  /\ doc.userPubkey \in Pubkeys
  /\ doc.relays # undefinedRelays /\ Len(doc.relays) > 0
  /\ doc.connectedAt >= 1
  /\ doc.permissions = <<"sign_event">>
\* a stored pending connection in which every field is set and the client
\* key decodes
PendingPopulated(doc) ==
  /\ ~decode(doc.clientSecretKey).threw
  /\ decode(doc.clientSecretKey).type = "nsec"
  /\ doc.nostrconnectUri # undefinedUri
  /\ doc.relays # undefinedRelays
\* the file holds a record that parses and is fully populated
GoodSessionFile ==
  /\ authFile # None
  /\ ~parse(Val(authFile)).threw
  /\ ~IsNull(parse(Val(authFile)).doc)
  /\ FullyPopulated(parse(Val(authFile)).doc)
GoodPendingFile ==
  /\ pendingFile # None
  /\ ~parse(Val(pendingFile)).threw
  /\ ~IsNull(parse(Val(pendingFile)).doc)
  /\ PendingPopulated(parse(Val(pendingFile)).doc)

\* C13 (as claimed): for the Session and for the pending connection, a file
\* that does not parse, or that parses to a record with a missing or
\* undecodable field, loads as none.
C13_LoadFailsSoft ==
  /\ ~GoodSessionFile => loadAuthState = None
  /\ ~GoodPendingFile => /\ loadPendingConnection = None
                         /\ loadPendingConnectionFromDisk.pending = None

\* C12 (as claimed): no operation writes a Session with a missing field:
\* whenever a step changes auth.json, the file is absent afterwards or holds
\* a record with client key, client public key, remote signer key, user
\* public key, relays, timestamp and permissions all set.
C12_SessionAbsentOrFull ==
  [][authFile' # authFile => (authFile' = None \/ GoodSessionFile')]_vars

\* (over stores that only this program wrote, in every reachable state
\* the Session is absent or fully populated)
OwnStoreSessionAbsentOrFull == authFile = None \/ GoodSessionFile

\* a client key and a user public key are held in memory
MemorySession == clientSecretKey # None /\ ~Falsy(userPubkey)

\* C14 (as claimed): isConnected() is true exactly when a Session with a
\* client key and a user public key is present, in memory or persisted.
C14_ConnectedIffSession == isConnected <=> (MemorySession \/ GoodSessionFile)

\* C15 (as claimed): disconnect() (called on the signer, or by the
\* disconnect tool of a connected signer) returns also when closing the
\* handle fails, and afterwards the credentials and the handle in memory are
\* null and neither a Session nor a pending connection is stored.
C15_DisconnectBestEffort ==
  [][(lastCall'.op = "disconnect" /\ (lastCall'.via = "signer" \/ isConnected))
       => /\ lastCall'.ok
          /\ bunkerSigner' = None
          /\ clientSecretKey' = None
          /\ userPubkey' = None
          /\ authFile' = None
          /\ pendingConnection' = None
          /\ pendingFile' = None]_vars

\* C16 (as claimed): whatever the signer and the store do, execute() of a
\* tool returns a success payload or a failure string; it never ends by
\* throwing.
C16_NoExceptionEscapes == lastCall.via = "tool" => ~lastCall.threw

\* the not-connected failures of the fetch wrapper and of the deploy tool
HttpNotConnectedMessages ==
  {"Not connected to Nostr. Run shakespeare_connect to authenticate.",
   "Failed to restore Nostr connection from saved credentials.",
   "Not connected to Nostr. Please authenticate first"}

SecretKeysHeld ==
  clientSecretKey
  \cup (IF pendingConnection = None THEN {} ELSE {Val(pendingConnection).clientSecretKey})
  \cup (IF bunkerSigner = None THEN {} ELSE {Val(bunkerSigner).sk})
  \cup (IF loadAuthState = None THEN {}
        ELSE {decode(Val(loadAuthState).clientSecretKey).data})
  \cup (IF loadPendingConnection = None THEN {}
        ELSE {decode(Val(loadPendingConnection).clientSecretKey).data})

\* the invitations held in memory or stored
Invitations ==
  (IF pendingConnection = None THEN {} ELSE {Val(pendingConnection).nostrconnectUri})
  \cup (IF loadPendingConnection = None THEN {}
        ELSE {Val(loadPendingConnection).nostrconnectUri})

C19_UriRoundTrips ==
  uriParsed # None
    => /\ ~Val(uriParsed).threw
       /\ Val(uriParsed).clientPubkey = uriParams.clientPubkey
       /\ Val(uriParsed).relays = uriParams.relays
       /\ Val(uriParsed).secret = Some(uriParams.secret)

\* C19 witness: createNostrConnectURI was given two different relays and a
\* secret that all hold characters of the query syntax
C19_Witness ==
  /\ uriParsed # None
  /\ uriParams.via = "createNostrConnectURI"
  /\ uriParams.relays = <<<<"a", "&">>, <<"+", " ">>>>
  /\ uriParams.secret = <<"%", "=">>
  /\ Val(uriParsed).relays = uriParams.relays

\* C20: once the timeout of a one-step connect() has been reported, no
\* Session is in the store and the client key of the attempt is not held in
\* memory.
C20_TimedOutConnectLeavesNothing ==
  attempt.pc = "rejected"
    => /\ authFile = None
       /\ relaySigner.clientSecretKey = None

\* the part of C20 that connect() of signer.ts keeps: a connect() whose
\* handshake timed out wrote no Session and holds neither key nor handle
ConnectTimeoutClears ==
  (lastCall.op = "connect" /\ lastCall.msg = "handshake timed out")
    => /\ clientSecretKey = None
       /\ bunkerSigner = None

ConnectTimeoutWritesNothing ==
  [][(lastCall'.op = "connect" /\ lastCall'.msg = "handshake timed out"
        /\ lastCall' # lastCall)
       => authFile' = authFile]_vars

\* C21: the signer holds one pending connection and the store one pending
\* file; when initiateConnection has returned, both hold the client key it
\* generated and the invitation URI built from that key.
C21_InitiateReplacesPending ==
  lastCall.op = "initiateConnection"
    => /\ pendingConnection # None
       /\ loadPendingConnection # None
       /\ Val(pendingConnection).clientSecretKey = nextKey - 1
       /\ Val(loadPendingConnection).clientSecretKey = nsecEncode(nextKey - 1)
       /\ Val(pendingConnection).nostrconnectUri.host = getPublicKey(nextKey - 1)
       /\ Val(loadPendingConnection).nostrconnectUri
            = Val(pendingConnection).nostrconnectUri

\* C21 witness: the second initiateConnection, over the pending connection
\* of the first
C21_Witness ==
  /\ lastCall.op = "initiateConnection"
  /\ nextKey = 3
  /\ authFile = None
  /\ Val(pendingConnection).clientSecretKey = 2

\* C22: a completeConnection that got an acknowledgment made its handle from
\* the pending connection in memory when there is one, and otherwise from
\* the stored one: the client key whose nsec is in the pending file, and the
\* relays of the stored invitation URI.
C22_CompleteUsesStoredPending ==
  [][(lastCall'.op = "completeConnection" /\ lastCall'.ack # None)
       => IF pendingConnection # None
          THEN bunkerSigner' = Some(fromURI(Val(pendingConnection).clientSecretKey,
                                            Val(pendingConnection).nostrconnectUri,
                                            Val(lastCall'.ack)))
          ELSE /\ loadPendingConnection # None
               /\ bunkerSigner' # None
               /\ nsecEncode(Val(bunkerSigner').sk)
                    = Val(loadPendingConnection).clientSecretKey
               /\ Val(bunkerSigner').bp.relays
                    = UriRelays(Val(loadPendingConnection).nostrconnectUri.query)
               /\ Val(bunkerSigner').bp.pubkey = Val(lastCall'.ack)]_vars

\* C22 witness: a completeConnection in a process that held no pending
\* connection in memory connected with the key of the stored one
C22_Witness ==
  /\ lastCall.op = "completeConnection"
  /\ lastCall.fromDisk
  /\ lastCall.ok
  /\ bunkerSigner # None
  /\ authFile # None
  /\ Val(loadAuthState).clientSecretKey = nsecEncode(Val(bunkerSigner).sk)

\* C23: initiateConnection leaves the stored Session, the client key and
\* user public key in memory, the live handle and this.relays, the list
\* publishEvent publishes to, as they were.
C23_InitiateLeavesSessionAlone ==
  [][(lastCall'.op = "initiateConnection" /\ nextKey' = nextKey + 1)
       => UNCHANGED <<authFile, clientSecretKey, userPubkey, bunkerSigner, relays>>]_vars

\* the part of C23 that initiateConnection keeps: everything but this.relays
InitiateLeavesCredentialsAlone ==
  [][(lastCall'.op = "initiateConnection" /\ nextKey' = nextKey + 1)
       => UNCHANGED <<authFile, clientSecretKey, userPubkey, bunkerSigner>>]_vars

\* C24: a connect() or completeConnection() whose handshake was acknowledged
\* and whose get_public_key request failed still succeeds, and the stored
\* Session names the author of the acknowledgment as the user.
C24_PublicKeyFallback ==
  (lastCall.op \in {"connect", "completeConnection"}
     /\ lastCall.ack # None /\ lastCall.pk = None)
    => /\ lastCall.ok
       /\ loadAuthState # None
       /\ Val(loadAuthState).userPubkey = Val(lastCall.ack)

\* C25: the response the handshake listener of connect() took as the
\* acknowledgment, and saved a Session on, carried the secret of the
\* invitation as its result.
C25_AcknowledgmentCarriesSecret ==
  attempt.by # None => Val(attempt.by) = attempt.secret

\* C26: the bunkerPubkey of the Session a connect() or completeConnection()
\* saved is the author of the handshake acknowledgment.
C26_BunkerPubkeyIsAckAuthor ==
  (lastCall.op \in {"connect", "completeConnection"} /\ lastCall.ok)
    => /\ loadAuthState # None
       /\ Val(loadAuthState).bunkerPubkey = Val(lastCall.ack)

\* the part of C26 that the relay based connect() keeps
RelayBunkerPubkeyIsAckAuthor ==
  (authFile # None /\ relaySigner.bunkerPubkey # None)
    => Val(loadAuthState).bunkerPubkey = Val(relaySigner.bunkerPubkey)

\* C27: when the promise of a sendRequest call has resolved or rejected,
\* none of the subscriptions the call opened is still open.
C27_SettledCallHasNoSubscription ==
  \A r \in Requests :
    outcome[r].kind \in {"resolved", "rejected"} => subs[r] = {}

\* C28: a connect() that waits for the acknowledgment eventually resolves
\* or rejects.
C28_ConnectSettles ==
  (attempt.pc = "waiting") ~> (attempt.pc \in {"resolved", "rejected"})

\* the part of C28 that sendRequest keeps: a call that was started settles
SendRequestSettles ==
  \A r \in Requests : (pc[r] \in {"publishing", "waiting"}) ~> (pc[r] = "settled")

\* what the caller of the call r sees of its outcome
Seen(r) == <<outcome[r].kind, outcome[r].value>>
\* the response that settled the call r
SettledBy(r) == parse(decrypt(Val(outcome[r].by).content, Val(outcome[r].by).pubkey).text).doc

\* the part of C29 about responses: a call settled by a response resolved
\* with its result when it carries no error, and rejected with its error
\* string otherwise
ResponseOutcome ==
  \A r \in Requests :
    outcome[r].by # None
      => IF SettledBy(r).error # None
         THEN Seen(r) = <<"rejected", Val(SettledBy(r).error)>>
         ELSE IF SettledBy(r).result # None
         THEN Seen(r) = <<"resolved", Val(SettledBy(r).result)>>
         ELSE Seen(r) = <<"resolved", "">>

\* C29: a call settles on a response as ResponseOutcome says, and a call the
\* timer settled shows its caller an outcome that no remote-reported error
\* shows.
C29_ThreeOutcomes ==
  /\ ResponseOutcome
  /\ \A r \in Requests :
       (outcome[r].kind = "rejected" /\ outcome[r].by = None)
         => Seen(r) \notin {<<"rejected", e>> : e \in RemoteErrors}

\* C30: connect() went on with exactly the relays of this.relays that could
\* be reached, and it failed with 'Failed to connect to any relay' when and
\* only when none could.
C30_PartialRelayFailure ==
  /\ attempt.pc = "threw"
       <=> (attempt.pc # "idle" /\ attempt.reached = {})
  /\ attempt.pc = "threw" => attempt.error = "Failed to connect to any relay"
  /\ attempt.pc = "waiting" /\ attempt.by = None => attempt.subs = attempt.reached

\* C30 witness: one of two configured relays failed and connect() waits on
\* the other
C30_Witness ==
  /\ attempt.pc = "waiting"
  /\ Len(attempt.relays) = 2
  /\ Cardinality(attempt.reached) = 1
  /\ attempt.subs = attempt.reached

\* C31: a request whose envelope at least one connected relay accepted did
\* not fail on the publish: it waits for its response, or has settled on a
\* response or on the timer.
C31_OneAcceptingRelaySuffices ==
  \A r \in Requests :
    outcome[r].accepted # {}
      => /\ outcome[r].kind # "threw"
         /\ pc[r] \in {"waiting", "settled"}


\* C32: relay connections are deduplicated by endpoint: no relay URL has more
\* than one connection open, the cached connections are open ones, and a
\* disconnect leaves no connection open and none cached.
C32_OneConnectionPerRelay ==
  /\ \A url \in {"wss://relay.a", "wss://relay.b"} : Cardinality(socketsOf(url)) <= 1
  /\ \A u \in DOMAIN connectedRelays : connectedRelays[u] \in sockets

\* lemma: within one run of connectToRelays() a URL listed twice is one
\* connection
DuplicateUrlIsOneConnection ==
  \A p \in Operations :
    \A i, j \in 1..Len(connecting[p].connected) :
      connecting[p].connected[i][1] = connecting[p].connected[j][1]
        => connecting[p].connected[i] = connecting[p].connected[j]

\* lemma: disconnect() empties the cache
DisconnectEmptiesCache ==
  [][relayDisconnect => connectedRelays' = << >>]_vars

\* the nonces of the invitations held in memory or stored
InvitationSecrets ==
  UNION {{uri.query[i][2] : i \in {j \in 1..Len(uri.query) : uri.query[j][1] = "secret"}}
         : uri \in Invitations}

\* C33: the client key a connect() leaves in memory, in its handle and in the
\* Session, and the client key and nonce an initiateConnection() puts into
\* its pending connection, were not held or stored before the call.
C33_FreshKeyPerAttempt ==
  [][/\ (lastCall'.op = "connect" /\ nextKey' # nextKey)
        => /\ clientSecretKey' \cap SecretKeysHeld = {}
           /\ bunkerSigner' # None => Val(bunkerSigner').sk \notin SecretKeysHeld
           /\ lastCall'.ok
                => decode(Val(loadAuthState').clientSecretKey).data \notin SecretKeysHeld
     /\ (lastCall'.op = "initiateConnection" /\ nextKey' # nextKey)
        => /\ Val(pendingConnection').clientSecretKey \notin SecretKeysHeld
           /\ decode(Val(loadPendingConnection').clientSecretKey).data \notin SecretKeysHeld
           /\ InvitationSecrets' \cap InvitationSecrets = {}]_vars

\* C33 witness: an invitation made while the Session of an earlier connect()
\* is stored carries another client key than the Session
C33_Witness ==
  /\ lastCall.op = "initiateConnection"
  /\ loadAuthState # None
  /\ pendingConnection # None
  /\ Val(pendingConnection).clientSecretKey
       # decode(Val(loadAuthState).clientSecretKey).data

\* C34: a signEvent() on an instance that holds the client key and the user
\* public key, has no handle and finds no Session in the store throws the
\* 'No auth state found' error, creates no handle and sends no request.
C34_ClearedStoreIsReported ==
  [][(/\ clientSecretKey # None /\ ~Falsy(userPubkey)
      /\ bunkerSigner = None /\ loadAuthState = None
      /\ \E signed \in BOOLEAN : signEvent(signed, "signer"))
     => /\ ~lastCall'.ok /\ lastCall'.threw
        /\ lastCall'.msg = "No auth state found. Use shakespeare_connect first."
        /\ bunkerSigner' = None
        /\ lastCall'.req = None]_vars

\* C34 witness: signEvent() failed on the missing Session while the instance
\* held its credentials
C34_Witness ==
  /\ lastCall.op = "signEvent" /\ lastCall.via = "signer"
  /\ lastCall.msg = "No auth state found. Use shakespeare_connect first."
  /\ clientSecretKey # None /\ ~Falsy(userPubkey)
  /\ bunkerSigner = None
  /\ loadAuthState = None


\* C35: a live handle exists only together with the client key and the user
\* public key, so a signEvent() that sent a signing request was called in a
\* state where isConnected() was true.
C35_HandleOnlyWhenConnected ==
  /\ bunkerSigner # None => (clientSecretKey # None /\ userPubkey # None)
  /\ (lastCall.op = "signEvent" /\ lastCall.req # None) => lastCall.wasConnected


\* C36: once connect() has resolved, that is once its handler has run the
\* get_public_key exchange and written the Session, a later delivery of the
\* acknowledgment changes neither the Session nor the user public key.
C36_HandshakeCompletesOnce ==
  [][(attempt.pc = "resolved" /\ attempt'.pc = "resolved")
     => /\ authFile' = authFile
        /\ attempt'.userPubkey = attempt.userPubkey
        /\ relaySigner'.bunkerPubkey = relaySigner.bunkerPubkey]_vars

\* C37: a call whose matching response the remote signer emitted after the
\* request envelope was published, before the subscriptions were opened
\* included, does not end on its timer.
C37_NoResponseLost ==
  \A r \in Requests :
    outcome[r].missed
      => ~(outcome[r].kind = "rejected" /\ outcome[r].by = None)

\* C38: whenever no signEvent() call is awaiting its signature, console.debug
\* is the original function.
C38_ConsoleDebugRestored ==
  (\A c \in SignCalls : signing[c] # "awaiting") => consoleDebug = originalDebug

\* lemma: exactly the calls that are awaiting hold a restore closure, and
\* console.debug is the original function or one a call installed
RestoreRunsOncePerCall ==
  /\ \A c \in SignCalls : (restoreDebug[c] # None) <=> (signing[c] = "awaiting")
  /\ consoleDebug \in {originalDebug} \cup {noop(c) : c \in SignCalls}


====
